---- MODULE Spec2Model ----
(***************************************************************************)
(* Model of the metadata garbage-collection pipeline of the metabase       *)
(* (DeleteExpiredObjects, DeleteZombieObjects, deleteObjectsAndSegments-   *)
(* Batch, deleteObjectsAndSegments) over the objects and segments tables,  *)
(* together with the writers that run concurrently with a pass; and of the *)
(* segment repair pipeline: the repair queue, the Repair Worker Service    *)
(* and the Segment Repairer that the repairer peer sets up.                *)
(***************************************************************************)
EXTENDS Integers, Sequences, FiniteSets, TLC

(***************************************************************************)
(* Bounds of the model.                                                    *)
(***************************************************************************)
\* Number of objects ever begun (each gets a fresh StreamID).
MaxObjects == 3
\* Number of segment rows one stream can own.
MaxSegments == 2
\* Number of passes run one after the other.
MaxPasses == 2
\* Number of writes of other clients that fall into the passes.
MaxWrites == 1

\* const deleteBatchsizeLimit = intLimitRange(1000)
deleteBatchsizeLimit == 1000

\* The key tuples (ProjectID, BucketName, ObjectKey, Version) objects are stored
\* at, in key order; every stored key is above the zero tuple.
KeyTuples == {<<1, 1, 2, 1>>, <<2, 1, 1, 1>>, <<2, 1, 1, 2>>}

\* time.Time values. A nullable column (expires_at, zombie_deletion_deadline)
\* holds NoTime for SQL NULL, or SomeTime(t).
Times == {1}
NoTime == <<>>
SomeTime(t) == <<t>>
\* opts.ExpiredBefore / opts.DeadlineBefore given to a pass.
Cutoffs == {1, 2}
\* opts.BatchSize given to a pass.
BatchSizes == {0, 1, 2, 1001}

pendingStatus == "Pending"
committedStatus == "Committed"

\* The statement of a deletion unit at which the store reports an error.
FailStages == {"segments", "commit"}

VARIABLES
    objects,        \* table objects: a set of rows, unique by key tuple
    segments,       \* table segments: a set of rows [stream_id, position]
    asOfObjects,    \* table objects as of the instant opts.AsOfSystemTime names
    nextStream,     \* next fresh StreamID
    pc,             \* position of the pass: idle, scan, exec, done (returned)
    opts,           \* options of the running pass: kind, cutoff, asOf
    batchsize,      \* batch size after deleteBatchsizeLimit.Ensure
    startAfter,     \* the cursor of deleteObjectsAndSegmentsBatch
    page,           \* objects read by the scan of the current page
    results,        \* results of the batch's statements executed so far
    err,            \* what the pass returns
    meter,          \* last values marked on object_delete / segment_delete
    objects0,       \* history: objects when the pass started
    segments0,      \* history: segments when the pass started
    units,          \* history: deletion units executed in this pass
    concurrent,     \* history: the writes of other clients during this pass
    passes,         \* history: number of passes started
    writes,         \* history: number of writes of other clients so far
    prev,           \* history: whether the previous pass ran alone and returned nil
    batches         \* history: sizes of the batches this pass sent to the store

gcVars == <<objects, segments, asOfObjects, nextStream, pc, opts, batchsize,
            startAfter, page, results, err, meter>>
histVars == <<objects0, segments0, units, concurrent, passes, writes, prev, batches>>

\* The segment repair pipeline.
VARIABLES
    pieces,         \* the segment's piece list in the metadata store
    reachable,      \* storage nodes that answer
    lowRep,         \* storage nodes below the minimum reputation score
    queue,          \* the repair queue: jobs, oldest first
    rpc,            \* per worker: position of its repair attempt
    job,            \* per worker: the job it dequeued
    expected,       \* per worker: the piece list it loaded
    selected,       \* per worker: replacement nodes the overlay returned
    uploaded,       \* per worker: nodes its uploads succeeded on
    outcome,        \* per worker: outcome of Repair
    cancelled,      \* the service's context is cancelled
    enqueued,       \* history: number of jobs the checker enqueued
    dequeued,       \* history: number of jobs dequeued
    ended           \* history: how each dequeued job ended

repairVars == <<pieces, reachable, lowRep, queue, rpc, job, expected, selected,
                uploaded, outcome, cancelled, enqueued, dequeued, ended>>

\* The reputation records of the storage nodes.
VARIABLES
    records,        \* per node: its NodeReputationRecord
    lock,           \* per node: the Update call inside its critical section, 0 if none
    call,           \* per caller: its Update call, with the record it read
    applied         \* history, per node: the outcomes in the order they were written

reputationVars == <<records, lock, call, applied>>

\* The filesystem of the uplink command tests.
VARIABLES
    tfs,            \* testFilesystem: files, pending, locals, buckets, created
    whs,            \* the write handles returned by Create, in creation order
    ret             \* what the last call returned

fsVars == <<tfs, whs, ret>>

\* The users table of the console.
VARIABLES
    users,          \* the rows of the users table, by ID
    inserted,       \* history: each row as Insert stored it
    tiers,          \* history, per user: the values given to UpdatePaidTier
    retrieved       \* what the last Get returned

userVars == <<users, inserted, tiers, retrieved>>

\* The repairer peer under construction (NewRepairer).
VARIABLES
    setup,          \* the block of NewRepairer that runs next, or "returned"
    config,         \* the call's inputs: debug address set, and which constructors fail
    listener,       \* peer.Debug.Listener: "" before the debug block, then "open" or "nil"
    servers,        \* peer.Servers: names of the items added, in order
    services,       \* peer.Services: names of the items added, in order
    closing,        \* names of the items whose Close has been called, in order
    returned        \* what NewRepairer returned: peer or nil, error or nil

peerVars == <<setup, config, listener, servers, services, closing, returned>>

\* The saved access file and the access-delete command.
VARIABLES
    defaultName,    \* the saved name of the default access
    accesses,       \* the saved accesses: name -> access value
    accessRet       \* what the last access-delete did and returned

accessVars == <<defaultName, accesses, accessRet>>

\* The rb command and the project it talks to.
VARIABLES
    deletions,      \* the bucket deletions the project was asked for, in order
    rbRet           \* what the last rb did, printed and returned

rbVars == <<deletions, rbRet>>

\* The onboarding overview step of the web console.
VARIABLES
    isLoading,      \* the component's isLoading flag
    handlers,       \* the click handlers that are running, and where each stands
    click           \* the last click: which button, and whether its handler went on

webVars == <<isLoading, handlers, click>>

cmdVars == <<peerVars, accessVars, rbVars, webVars>>

\* What a step of each part leaves alone.
nonGCVars == <<repairVars, reputationVars, fsVars, userVars, cmdVars>>
nonRepairVars == <<gcVars, histVars, reputationVars, fsVars, userVars, cmdVars>>
nonReputationVars == <<gcVars, histVars, repairVars, fsVars, userVars, cmdVars>>
nonFsVars == <<gcVars, histVars, repairVars, reputationVars, userVars, cmdVars>>
nonUserVars == <<gcVars, histVars, repairVars, reputationVars, fsVars, cmdVars>>

mainVars == <<gcVars, histVars, repairVars, reputationVars, fsVars, userVars>>
nonPeerVars == <<mainVars, accessVars, rbVars, webVars>>
nonAccessVars == <<mainVars, peerVars, rbVars, webVars>>
nonRbVars == <<mainVars, peerVars, accessVars, webVars>>
nonWebVars == <<mainVars, peerVars, accessVars, rbVars>>

vars == <<mainVars, cmdVars>>

(***************************************************************************)
(* Key tuples and ObjectStream.                                            *)
(***************************************************************************)
\* Mutant of ZeroObjectStream: the cursor starts from a key inside the table.
MidObjectStream ==
    [ProjectID |-> 1, BucketName |-> 1, ObjectKey |-> 2, Version |-> 1, StreamID |-> 0]

\* ObjectStream{}: the zero value the cursor starts from.
ZeroObjectStream ==
    [ProjectID |-> 0, BucketName |-> 0, ObjectKey |-> 0, Version |-> 0, StreamID |-> 0]

\* lastDeleted.StreamID.IsZero()
IsZero(streamID) == streamID = 0

\* The ObjectStream a scan builds from a row of objects.
ObjectStreamOf(r) ==
    [ProjectID |-> r.project_id, BucketName |-> r.bucket_name,
     ObjectKey |-> r.object_key, Version |-> r.version, StreamID |-> r.stream_id]

\* (project_id, bucket_name, object_key, version) > ($1, $2, $3, $4)
KeyGT(r, s) ==
    \/ r.project_id > s.ProjectID
    \/ /\ r.project_id = s.ProjectID
       /\ \/ r.bucket_name > s.BucketName
          \/ /\ r.bucket_name = s.BucketName
             /\ \/ r.object_key > s.ObjectKey
                \/ /\ r.object_key = s.ObjectKey
                   /\ r.version > s.Version

\* Mutant of RowBefore: the page ordered by the key tuple descending.
RowBeforeDescending(r, q) == KeyGT(r, ObjectStreamOf(q))

\* ORDER BY project_id, bucket_name, object_key, version: r sorts before q.
RowBefore(r, q) == KeyGT(q, ObjectStreamOf(r))

\* (project_id, bucket_name, object_key, version) = ($1, $2, $3, $4)
KeyEq(r, s) ==
    /\ r.project_id = s.ProjectID
    /\ r.bucket_name = s.BucketName
    /\ r.object_key = s.ObjectKey
    /\ r.version = s.Version

SameKey(r, q) == KeyEq(r, ObjectStreamOf(q))

(***************************************************************************)
(* The scans of a page.                                                    *)
(***************************************************************************)
\* Mutant of ExpiredMatch: the comparison written as expires_at <= $5.
ExpiredMatchInclusive(r, cutoff) ==
    /\ r.expires_at # NoTime
    /\ r.expires_at[1] <= cutoff

\* WHERE ... AND expires_at < $5 (a NULL expires_at compares to NULL: no match).
ExpiredMatch(r, cutoff) ==
    /\ r.expires_at # NoTime
    /\ r.expires_at[1] < cutoff

\* Mutant of ZombieMatch: the comparison written as zombie_deletion_deadline <= $5.
ZombieMatchInclusive(r, cutoff) ==
    /\ r.status = pendingStatus
    /\ r.zombie_deletion_deadline # NoTime
    /\ r.zombie_deletion_deadline[1] <= cutoff

\* WHERE ... AND status = pendingStatus AND zombie_deletion_deadline < $5
ZombieMatch(r, cutoff) ==
    /\ r.status = pendingStatus
    /\ r.zombie_deletion_deadline # NoTime
    /\ r.zombie_deletion_deadline[1] < cutoff

\* The predicate of a pass of the given kind.
Match(kind, r, cutoff) ==
    IF kind = "expired" THEN ExpiredMatch(r, cutoff) ELSE ZombieMatch(r, cutoff)

\* ORDER BY the key tuple, LIMIT n: the first n rows of a set, in key order.
RECURSIVE OrderLimit(_, _)
OrderLimit(rows, n) ==
    IF rows = {} \/ n <= 0 THEN <<>>
    ELSE LET first == CHOOSE r \in rows : \A q \in rows \ {r} : RowBefore(r, q)
         IN  <<first>> \o OrderLimit(rows \ {first}, n - 1)

\* Mutant of AfterCursor: the comparison with the cursor written as >=.
AfterCursorOrAt(r, after) == KeyGT(r, after) \/ KeyEq(r, after)

\* WHERE (project_id, bucket_name, object_key, version) > ($1, $2, $3, $4),
\* with the cursor startAfter as $1..$4.
AfterCursor(r, after) == KeyGT(r, after)

\* Mutant of SelectRows: the LIMIT taken before the predicate is applied.
SelectRowsLimitFirst(table, kind, after, cutoff, limit) ==
    SelectSeq(OrderLimit({r \in table : AfterCursor(r, after)}, limit),
              LAMBDA r : Match(kind, r, cutoff))

\* Mutant of SelectRows: the query without its LIMIT.
SelectRowsNoLimit(table, kind, after, cutoff, limit) ==
    OrderLimit({r \in table : AfterCursor(r, after) /\ Match(kind, r, cutoff)},
               Cardinality(table))

\* Mutant of SelectRows: the LIMIT off by one.
SelectRowsLimitPlusOne(table, kind, after, cutoff, limit) ==
    OrderLimit({r \in table : AfterCursor(r, after) /\ Match(kind, r, cutoff)}, limit + 1)

\* The rows a page's SELECT returns: after the cursor, matching, ordered, limited.
SelectRows(table, kind, after, cutoff, limit) ==
    OrderLimit({r \in table : AfterCursor(r, after) /\ Match(kind, r, cutoff)}, limit)

\* rows.Next()/rows.Scan: the ObjectStreams appended to the page's list.
ScanPage(table, kind, after, cutoff, limit) ==
    LET rows == SelectRows(table, kind, after, cutoff, limit)
    IN  [i \in 1..Len(rows) |-> ObjectStreamOf(rows[i])]

\* db.impl.AsOfSystemTime(opts.AsOfSystemTime): the table the scan reads.
ScanTable(o) == IF o.asOf THEN asOfObjects ELSE objects

\* The named result `last` of deleteBatch: the last row scanned, or the zero value.
LastOf(p) == IF Len(p) = 0 THEN ZeroObjectStream ELSE p[Len(p)]

\* intLimitRange.Ensure: a value outside 1..limit becomes the limit.
Ensure(limit, v) == IF v <= 0 \/ v > limit THEN limit ELSE v

(***************************************************************************)
(* One deletion unit: START TRANSACTION; DELETE FROM objects; DELETE FROM  *)
(* segments; COMMIT TRANSACTION.                                           *)
(***************************************************************************)
\* DELETE FROM objects WHERE key tuple = ... AND stream_id = $5: rows removed.
ObjectRowsOf(obj) ==
    {r \in objects : KeyEq(r, obj) /\ r.stream_id = obj.StreamID}

\* Mutant of SegmentRowsOf: the DELETE FROM segments without its WHERE.
SegmentRowsOfAll(obj) == segments

\* DELETE FROM segments WHERE segments.stream_id = $1: rows removed.
SegmentRowsOf(obj) ==
    {s \in segments : s.stream_id = obj.StreamID}

Ok(n) == [err |-> FALSE, rows |-> n]
Failed == [err |-> TRUE, rows |-> 0]

\* The four results the store returns for one unit. A statement after a failed
\* one of the same transaction fails too; COMMIT of an aborted transaction
\* rolls back without an error; a failed COMMIT rolls back.
UnitResults(obj, stage) ==
    LET o == Cardinality(ObjectRowsOf(obj))
        s == Cardinality(SegmentRowsOf(obj))
    IN  CASE stage = "ok"       -> <<Ok(0), Ok(o), Ok(s), Ok(0)>>
          [] stage = "segments" -> <<Ok(0), Ok(o), Failed, Ok(0)>>
          [] stage = "commit"   -> <<Ok(0), Ok(o), Ok(s), Failed>>

\* Mutant of ObjectsAfterUnit: the object delete is not rolled back when a later
\* statement of the unit fails.
ObjectsAfterUnitNoRollback(obj, stage) == objects \ ObjectRowsOf(obj)

\* Mutant of ObjectsAfterUnit: the DELETE FROM objects never finds its row.
ObjectsAfterUnitKept(obj, stage) == objects

\* The tables after the unit: both deletes when it commits, nothing otherwise.
ObjectsAfterUnit(obj, stage) ==
    IF stage = "ok" THEN objects \ ObjectRowsOf(obj) ELSE objects

SegmentsAfterUnit(obj, stage) ==
    IF stage = "ok" THEN segments \ SegmentRowsOf(obj) ELSE segments

\* Number of units of the batch whose results are in.
UnitsDone == Len(results) \div 4

\* Mutant of BatchExecuted: the loop over the results stops at the first error.
BatchExecutedOrFailed(p, res) ==
    Len(res) = 4 * Len(p) \/ \E i \in 1..Len(res) : res[i].err

\* Mutant of BatchExecuted: only the results of the batch's first unit are awaited.
BatchExecutedFirstUnit(p, res) == Len(p) = 0 \/ Len(res) >= 4

\* for i := 0; i < batch.Len(); i++: the results of every queued statement are
\* read, whatever errors the earlier ones returned.
BatchExecuted(p, res) == Len(res) = 4 * Len(p)

\* errlist: the (0-based) statements of the batch that returned an error.
ErrList(res) == {i \in 0..(Len(res) - 1) : res[i + 1].err}

RECURSIVE SumRows(_, _)
SumRows(res, idxs) ==
    IF idxs = {} THEN 0
    ELSE LET i == CHOOSE j \in idxs : TRUE
         IN  res[i + 1].rows + SumRows(res, idxs \ {i})

\* objectsDeleted: switch i % 3 { case 1: if err == nil { += RowsAffected } }
ObjectsDeleted(res) ==
    SumRows(res, {i \in 0..(Len(res) - 1) : i % 3 = 1 /\ ~res[i + 1].err})

\* segmentsDeleted: switch i % 3 { case 2: if err == nil { += RowsAffected } }
SegmentsDeleted(res) ==
    SumRows(res, {i \in 0..(Len(res) - 1) : i % 3 = 2 /\ ~res[i + 1].err})

NoError == [kind |-> "nil", list |-> {}]
ScanError == [kind |-> "scan", list |-> {}]
DeleteError(list) == [kind |-> "delete", list |-> list]

(***************************************************************************)
(* The segment repair pipeline: its configuration and the segment.         *)
(***************************************************************************)
\* The redundancy scheme of the segment.
RequiredPieces == 2
RepairThreshold == 3
OptimalThreshold == 4
TotalPieces == 5

\* The storage nodes (NodeIDs) of the network.
Nodes == 1..6

\* The size of the worker pool of the Repair Worker Service.
MaxConcurrentRepairs == 2
Workers == 1..MaxConcurrentRepairs

\* The configured cap of a job's Attempts.
MaxAttempts == 1

\* Number of jobs the checker enqueues.
MaxJobs == 2

NoJob == [Attempts |-> -1]
NewJob == [Attempts |-> 0]

\* The repair pipeline at rest: nothing queued, no worker at work.
RepairIdle ==
    /\ queue = <<>>
    /\ rpc = [w \in Workers |-> "idle"]
    /\ job = [w \in Workers |-> NoJob]
    /\ expected = [w \in Workers |-> {}]
    /\ selected = [w \in Workers |-> {}]
    /\ uploaded = [w \in Workers |-> {}]
    /\ outcome = [w \in Workers |-> "none"]
    /\ cancelled = FALSE
    /\ enqueued = 0
    /\ dequeued = 0
    /\ ended = <<>>

\* No segment and no storage node: the state of the repair pipeline in the
\* behaviours of the garbage collection.
NoRepair ==
    /\ pieces = {}
    /\ reachable = {}
    /\ lowRep = {}
    /\ RepairIdle

(***************************************************************************)
(* Reputation records (Update), the filesystem of the uplink command tests *)
(* and the users table: their values and their state at rest.              *)
(***************************************************************************)
MaxUpdates == 3
MaxHandles == 3
MaxBytes == 1
MaxTierUpdates == 2

\* Storage nodes whose reputation is updated, and the callers of Update.
RepNodes == {1, 2}
Callers == 1..MaxUpdates

\* reputation.AuditSuccess, AuditFailure, AuditUnknown, AuditOffline
AuditSuccess == "AuditSuccess"
AuditFailure == "AuditFailure"
AuditUnknown == "AuditUnknown"
AuditOffline == "AuditOffline"
Outcomes == {AuditSuccess, AuditFailure, AuditUnknown, AuditOffline}

\* Length of the sliding audit-history window.
WindowLen == 2

\* The record of a node no audit was reported for.
EmptyRecord ==
    [AuditSuccessCount |-> 0, AuditFailureCount |-> 0, AuditUnknownCount |-> 0,
     OfflineCount |-> 0, AuditHistory |-> <<>>, Alpha |-> 1, Beta |-> 0]

NoCall == [state |-> "idle", NodeID |-> 0, AuditOutcome |-> "", read |-> EmptyRecord]

NoReputation ==
    /\ records = [n \in RepNodes |-> EmptyRecord]
    /\ lock = [n \in RepNodes |-> 0]
    /\ call = [c \in Callers |-> NoCall]
    /\ applied = [n \in RepNodes |-> <<>>]

\* A Go map: a function on a finite set of keys.
EmptyMap == [k \in {} |-> 0]
Put(m, k, v) == [x \in (DOMAIN m) \cup {k} |-> IF x = k THEN v ELSE m[x]]
Del(m, k) == [x \in (DOMAIN m) \ {k} |-> m[x]]
Has(m, k) == k \in DOMAIN m

\* ulloc.Location: standard input/output ("-"), a local path, or a bucket and
\* key.  A path is the sequence of its components; "a/" is <<"a", "">>.
StdLoc == [Kind |-> "std", Bucket |-> "", Path |-> <<>>]
LocalLoc(path) == [Kind |-> "local", Bucket |-> "", Path |-> path]
RemoteLoc(bucket, key) == [Kind |-> "remote", Bucket |-> bucket, Path |-> key]
NoLoc == [Kind |-> "none", Bucket |-> "", Path |-> <<>>]

Locs ==
    {StdLoc, LocalLoc(<<"a">>), LocalLoc(<<"a", "b">>), LocalLoc(<<"a", "">>),
     RemoteLoc("b1", <<"k">>), RemoteLoc("b2", <<"k">>)}

\* Bytes a test writes; Open of "-" yields the one byte '-'.
Bytes == {1}
StdinByte == 0

\* newTestFilesystem, with the bucket the test set up.
NewTestFilesystem ==
    [files |-> EmptyMap, pending |-> EmptyMap, locals |-> EmptyMap,
     buckets |-> {"b1"}, created |-> 0]

NoRet == [op |-> "", a |-> NoLoc, b |-> NoLoc, h |-> 0, err |-> ""]

NoFilesystem ==
    /\ tfs = NewTestFilesystem
    /\ whs = <<>>
    /\ ret = NoRet

\* Users of the console tests.
UserIDs == {1, 2}
Emails == {"email@mail.test", "testemail@mail.test"}

NoUsers ==
    /\ users = EmptyMap
    /\ inserted = EmptyMap
    /\ tiers = [id \in UserIDs |-> <<>>]
    /\ retrieved = <<>>

\* The repairer peer before NewRepairer is called.
NoConfig == [DebugAddress |-> FALSE, listenFails |-> FALSE, tlsFails |-> FALSE,
             overlayFails |-> FALSE, ordersFails |-> FALSE]
NoReturn == [peer |-> "", err |-> {}]

NoPeer ==
    /\ setup = "new"
    /\ config = NoConfig
    /\ listener = ""
    /\ servers = <<>>
    /\ services = <<>>
    /\ closing = <<>>
    /\ returned = NoReturn

\* The access file before anything is saved.
NoAccessRet == [name |-> "", err |-> "", saved |-> FALSE, out |-> FALSE]

NoAccess ==
    /\ defaultName = ""
    /\ accesses = EmptyMap
    /\ accessRet = NoAccessRet

\* The project before rb has run.
NoRbRet == [loc |-> NoLoc, force |-> FALSE, opened |-> FALSE, err |-> "", out |-> FALSE]

NoRb ==
    /\ deletions = <<>>
    /\ rbRet = NoRbRet

\* The overview step as mounted: no handler runs.
MaxHandlers == 3
Handlers == 1..MaxHandlers
Idle == [button |-> "", at |-> "idle", failed |-> ""]
NoClick == [button |-> "", taken |-> FALSE]

NoWeb ==
    /\ isLoading = FALSE
    /\ handlers = [h \in Handlers |-> Idle]
    /\ click = NoClick

NoCommands == NoPeer /\ NoAccess /\ NoRb /\ NoWeb

(***************************************************************************)
(* Initial state: a table of at most MaxObjects objects, each with its     *)
(* first segment, and no pass running.                                     *)
(***************************************************************************)
NoOpts == [kind |-> "none", cutoff |-> 0, asOf |-> FALSE, BatchSize |-> 0]
NoMeter == [object_delete |-> 0, segment_delete |-> 0]

NullableTimes == {NoTime} \cup {SomeTime(t) : t \in Times}

\* A row of objects: Pending rows carry a zombie deadline, Committed rows none.
Row(key, stream, status, e, d) ==
    [project_id |-> key[1], bucket_name |-> key[2], object_key |-> key[3],
     version |-> key[4], stream_id |-> stream, status |-> status,
     expires_at |-> e,
     zombie_deletion_deadline |-> IF status = pendingStatus THEN SomeTime(d) ELSE NoTime]

\* Position (1-based) of a key among a set of keys, in key order.
KeyRank(key, keys) ==
    1 + Cardinality({k \in keys :
            KeyGT([project_id |-> key[1], bucket_name |-> key[2],
                   object_key |-> key[3], version |-> key[4]],
                  [ProjectID |-> k[1], BucketName |-> k[2],
                   ObjectKey |-> k[3], Version |-> k[4]])})

\* The tables a pass can find: StreamIDs are distinct and never zero.
InitTables ==
    UNION {
      { {Row(k, KeyRank(k, keys), st[k], ex[k], dl[k]) : k \in keys} :
            st \in [keys -> {pendingStatus, committedStatus}],
            ex \in [keys -> NullableTimes],
            dl \in [keys -> Times] }
      : keys \in {ks \in SUBSET KeyTuples : Cardinality(ks) <= MaxObjects} }

Init ==
    /\ objects \in InitTables
    /\ segments = {[stream_id |-> r.stream_id, position |-> 1] : r \in objects}
    /\ asOfObjects = objects
    /\ nextStream = Cardinality(objects) + 1
    /\ pc = "idle"
    /\ opts = NoOpts
    /\ batchsize = 0
    /\ startAfter = ZeroObjectStream
    /\ page = <<>>
    /\ results = <<>>
    /\ err = NoError
    /\ meter = NoMeter
    /\ objects0 = objects
    /\ segments0 = segments
    /\ units = <<>>
    /\ concurrent = <<>>
    /\ passes = 0
    /\ writes = 0
    /\ prev = FALSE
    /\ batches = <<>>
    /\ NoRepair
    /\ NoReputation
    /\ NoFilesystem
    /\ NoUsers
    /\ NoCommands

passVars == <<pc, opts, batchsize, startAfter, page, results, err, meter,
              objects0, segments0, units, passes, prev, batches>>

\* Whether a row is one the pass of this kind is to select: its expiry, or
\* (while Pending) its zombie deadline, lies strictly before the cutoff.
Eligible(kind, r, cutoff) ==
    IF kind = "expired"
    THEN r.expires_at # NoTime /\ r.expires_at[1] < cutoff
    ELSE /\ r.status = pendingStatus
         /\ r.zombie_deletion_deadline # NoTime
         /\ r.zombie_deletion_deadline[1] < cutoff

\* History kept by a writer: what it wrote, and after how many units of the pass.
Wrote(what) ==
    /\ concurrent' = Append(concurrent, [what |-> what, at |-> Len(units)])
    /\ writes' = writes + 1

\* A pass is under way and another client may still write during it.
Running == pc \in {"scan", "exec"} /\ writes < MaxWrites

(***************************************************************************)
(* Writers that share the metadata store with a running pass.              *)
(***************************************************************************)
\* Upload start: a Pending object with a fresh StreamID and a zombie deadline.
BeginObject(key, e, d) ==
    LET row == Row(key, nextStream, pendingStatus, e, d)
    IN  /\ Running
        /\ nextStream <= MaxObjects
        /\ \A r \in objects : ~SameKey(r, row)
        /\ objects' = objects \cup {row}
        /\ nextStream' = nextStream + 1
        /\ Wrote(IF Eligible(opts.kind, row, opts.cutoff) THEN "insert-matching" ELSE "insert")
        /\ UNCHANGED <<segments, asOfObjects, passVars, nonGCVars>>

\* Segment upload: one more segment row for the stream of a Pending object.
CommitSegment(r) ==
    LET n == Cardinality({s \in segments : s.stream_id = r.stream_id})
    IN  /\ Running
        /\ r \in objects
        /\ r.status = pendingStatus
        /\ n < MaxSegments
        /\ segments' = segments \cup {[stream_id |-> r.stream_id, position |-> n + 1]}
        /\ Wrote("segment")
        /\ UNCHANGED <<objects, asOfObjects, nextStream, passVars, nonGCVars>>

\* Finalize: the Pending object becomes Committed and loses its zombie deadline.
CommitObject(r) ==
    /\ Running
    /\ r \in objects
    /\ r.status = pendingStatus
    /\ objects' = (objects \ {r}) \cup
            {[r EXCEPT !.status = committedStatus, !.zombie_deletion_deadline = NoTime]}
    /\ Wrote("commit")
    /\ UNCHANGED <<segments, asOfObjects, nextStream, passVars, nonGCVars>>

(***************************************************************************)
(* The pass: DeleteExpiredObjects / DeleteZombieObjects.                   *)
(***************************************************************************)
\* Entry of deleteObjectsAndSegmentsBatch: the cursor is the zero ObjectStream.
EnterBatch ==
    /\ pc' = "scan"
    /\ startAfter' = ZeroObjectStream
    /\ page' = <<>>
    /\ results' = <<>>
    /\ err' = NoError
    /\ meter' = NoMeter
    /\ objects0' = objects
    /\ segments0' = segments
    /\ units' = <<>>
    /\ concurrent' = <<>>
    /\ batches' = <<>>
    /\ passes' = passes + 1
    /\ UNCHANGED <<objects, segments, nextStream, writes, nonGCVars>>

\* A first call, with its options; opts.AsOfSystemTime names the present.
StartPass(kind, cutoff, asOf, b) ==
    /\ pc = "idle"
    /\ opts' = [kind |-> kind, cutoff |-> cutoff, asOf |-> asOf, BatchSize |-> b]
    /\ batchsize' = Ensure(deleteBatchsizeLimit, b)
    /\ asOfObjects' = objects
    /\ prev' = FALSE
    /\ EnterBatch

\* The next call with the same options, opts.AsOfSystemTime included.
Rerun ==
    /\ pc = "done"
    /\ passes < MaxPasses
    /\ prev' = (err = NoError /\ concurrent = <<>>)
    /\ UNCHANGED <<opts, batchsize, asOfObjects>>
    /\ EnterBatch

\* deleteBatch, first half: the page's SELECT succeeds and fills the list.
ReadPage ==
    /\ pc = "scan"
    /\ page' = ScanPage(ScanTable(opts), opts.kind, startAfter, opts.cutoff, batchsize)
    /\ results' = <<>>
    /\ batches' = IF Len(page') = 0 THEN batches ELSE Append(batches, Len(page'))
    /\ pc' = "exec"
    /\ UNCHANGED <<objects, segments, asOfObjects, nextStream, opts, batchsize,
                   startAfter, err, meter, objects0, segments0, units, concurrent,
                   passes, writes, prev, nonGCVars>>

\* Mutant of ReadPageFails: the error of the SELECT is swallowed.
ReadPageFailsSwallowed ==
    /\ pc = "scan"
    /\ err' = NoError
    /\ pc' = "done"
    /\ UNCHANGED <<objects, segments, asOfObjects, nextStream, opts, batchsize,
                   startAfter, page, results, meter, histVars, nonGCVars>>

\* deleteBatch, first half: the page's SELECT fails; the pass returns the error.
ReadPageFails ==
    /\ pc = "scan"
    /\ err' = ScanError
    /\ pc' = "done"
    /\ UNCHANGED <<objects, segments, asOfObjects, nextStream, opts, batchsize,
                   startAfter, page, results, meter, histVars, nonGCVars>>


\* The store executes the next unit of the batch sent by deleteObjectsAndSegments.
ExecUnit(stage) ==
    /\ pc = "exec"
    /\ ~BatchExecuted(page, results)
    /\ LET obj == page[UnitsDone + 1]
       IN  /\ results' = results \o UnitResults(obj, stage)
           /\ objects' = ObjectsAfterUnit(obj, stage)
           /\ segments' = SegmentsAfterUnit(obj, stage)
           /\ units' = Append(units, obj)
    /\ UNCHANGED <<asOfObjects, nextStream, pc, opts, batchsize, startAfter, page,
                   err, meter, objects0, segments0, concurrent, passes, writes, prev,
                   batches, nonGCVars>>

\* What deleteBatch returns once the batch's results are read: (last, err).
BatchErr(p, res) ==
    IF Len(p) # 0 /\ ErrList(res) # {} THEN DeleteError(ErrList(res)) ELSE NoError

BatchLast(p, res) ==
    IF BatchErr(p, res) # NoError THEN ZeroObjectStream ELSE LastOf(p)

\* Mutant of LoopStops: the check of the zero StreamID left out.
LoopStopsOnErrorOnly(p, res) == BatchErr(p, res) # NoError

\* The loop of deleteObjectsAndSegmentsBatch after deleteBatch returned.
LoopStops(p, res) ==
    BatchErr(p, res) # NoError \/ IsZero(BatchLast(p, res).StreamID)

\* deleteObjectsAndSegments reads the results, marks the meters and returns;
\* deleteObjectsAndSegmentsBatch returns or moves the cursor.
FinishPage ==
    /\ pc = "exec"
    /\ BatchExecuted(page, results)
    /\ meter' = IF Len(page) = 0 THEN meter
                ELSE [object_delete |-> ObjectsDeleted(results),
                      segment_delete |-> SegmentsDeleted(results)]
    /\ err' = BatchErr(page, results)
    /\ IF LoopStops(page, results)
       THEN pc' = "done" /\ startAfter' = startAfter
       ELSE pc' = "scan" /\ startAfter' = BatchLast(page, results)
    /\ UNCHANGED <<objects, segments, asOfObjects, nextStream, opts, batchsize,
                   page, results, histVars, nonGCVars>>

Next ==
    \/ \E key \in KeyTuples, e \in NullableTimes, d \in Times : BeginObject(key, e, d)
    \/ \E r \in objects : CommitSegment(r)
    \/ \E r \in objects : CommitObject(r)
    \/ \E kind \in {"expired", "zombie"}, cutoff \in Cutoffs, asOf \in BOOLEAN,
          b \in BatchSizes : StartPass(kind, cutoff, asOf, b)
    \/ Rerun
    \/ ReadPage
    \/ ReadPageFails
    \/ \E stage \in {"ok"} \cup FailStages : ExecUnit(stage)
    \/ FinishPage

Spec == Init /\ [][Next]_vars

(***************************************************************************)
(* Vocabulary of the properties.                                           *)
(***************************************************************************)
Range(seq) == {seq[i] : i \in 1..Len(seq)}

NoDuplicates(seq) == \A i, j \in 1..Len(seq) : i # j => seq[i] # seq[j]

\* No other client wrote during the current pass.
Quiet == concurrent = <<>>

\* The object row an ObjectStream names is in the table.
HasObject(table, o) == \E r \in table : ObjectStreamOf(r) = o

SegmentsOfStream(table, id) == {s \in table : s.stream_id = id}

\* The objects that match the pass's predicate in the table its scan reads,
\* as that table is when the pass starts.
Matched0 ==
    {ObjectStreamOf(r) : r \in {q \in (IF opts.asOf THEN asOfObjects ELSE objects0) :
                                    Eligible(opts.kind, q, opts.cutoff)}}

\* A row of objects that the step removes: no row of its key and StreamID is left.
Removed(r) == \A q \in objects' : ~(SameKey(q, r) /\ q.stream_id = r.stream_id)

\* The i-th unit of the current page returned an error for one of its statements.
UnitFailed(i) == \E k \in 1..4 : results[4 * (i - 1) + k].err

\* The step in which deleteBatch returns for a page that held objects.
PageReturns == pc = "exec" /\ pc' # "exec" /\ Len(page) > 0

(***************************************************************************)
(* C1. Each deletion unit is indivisible: for every unit a pass has        *)
(* executed, either the object row and all segment rows of its StreamID    *)
(* are gone, or the row is still there with every segment it had; and no   *)
(* segment row is ever left without the object row of its StreamID.        *)
(***************************************************************************)
C1_UnitIndivisible ==
    /\ \A i \in 1..Len(units) :
          \/ /\ ~HasObject(objects, units[i])
             /\ SegmentsOfStream(segments, units[i].StreamID) = {}
          \/ /\ HasObject(objects, units[i])
             /\ SegmentsOfStream(segments0, units[i].StreamID) \subseteq segments
    /\ \A s \in segments : \E r \in objects : r.stream_id = s.stream_id

\* A page in which one unit failed at its segment delete and left the object
\* and its segment, and another unit committed and removed both.
C1_Witness ==
    /\ pc = "exec"
    /\ \E i, j \in 1..UnitsDone :
          /\ results[4 * (i - 1) + 3].err
          /\ HasObject(objects, page[i])
          /\ SegmentsOfStream(segments, page[i].StreamID) # {}
          /\ ~UnitFailed(j)
          /\ results[4 * (j - 1) + 2].rows = 1
          /\ results[4 * (j - 1) + 3].rows >= 1
          /\ ~HasObject(objects, page[j])

(***************************************************************************)
(* C2. Whenever deleteBatch returns for a page that held objects, the      *)
(* pass goes on to scan the next page with the cursor at the page's last   *)
(* object, whether or not the page's deletions succeeded.                  *)
(***************************************************************************)
C2_PassGoesOnAfterFailure ==
    [][PageReturns => pc' = "scan" /\ startAfter' = LastOf(page)]_vars

(***************************************************************************)
(* C3. When a pass returns the error of a page's deletions, every unit of  *)
(* that page was executed: each unit that did not fail removed its object  *)
(* row, and the returned error lists the failed statements of every failed *)
(* unit of the page.                                                       *)
(***************************************************************************)
C3_OtherUnitsStillRun ==
    (pc = "done" /\ err.kind = "delete") =>
        /\ UnitsDone = Len(page)
        /\ \A i \in 1..Len(page) :
              /\ ~UnitFailed(i) => ~HasObject(objects, page[i])
              /\ UnitFailed(i) <=> \E k \in err.list : k \div 4 = i - 1

\* A page of three units of which the first and the third failed and the
\* second removed its object row.
C3_Witness ==
    /\ pc = "done"
    /\ err.kind = "delete"
    /\ Len(page) = 3
    /\ UnitFailed(1)
    /\ ~UnitFailed(2)
    /\ results[6].rows = 1
    /\ UnitFailed(3)
    /\ \E k \in err.list : k \div 4 = 0
    /\ \E k \in err.list : k \div 4 = 2

(***************************************************************************)
(* C4 as stated: the expired-object pass removes an object row only if the *)
(* object is Committed and its ExpiresAt is strictly before the cutoff.    *)
(***************************************************************************)
C4_ExpiredDeletesOnlyCommitted ==
    [][opts.kind = "expired" =>
          \A r \in objects : Removed(r) =>
              /\ r.status = committedStatus
              /\ r.expires_at # NoTime
              /\ r.expires_at[1] < opts.cutoff]_vars

(***************************************************************************)
(* C4 amended: the expired-object pass removes an object row only if its   *)
(* ExpiresAt is set and strictly before the cutoff, whatever its status.   *)
(***************************************************************************)
C4_ExpiredDeletesOnlyExpired ==
    [][opts.kind = "expired" =>
          \A r \in objects : Removed(r) =>
              /\ r.expires_at # NoTime
              /\ r.expires_at[1] < opts.cutoff]_vars

\* An expired-object pass that has removed an object and left in place an
\* object without ExpiresAt.
C4_Witness ==
    /\ opts.kind = "expired"
    /\ pc = "done"
    /\ \E r \in objects0 : ~HasObject(objects, ObjectStreamOf(r))
    /\ \E r \in objects : r.expires_at = NoTime /\ r \in objects0

(***************************************************************************)
(* C5. Every object a page of the zombie-object pass selects is, in the    *)
(* table the scan reads, Pending with a ZombieDeletionDeadline strictly    *)
(* before the cutoff; and a unit of the pass leaves every row it did not   *)
(* select as it is.                                                        *)
(***************************************************************************)
C5_ZombieSelectsOnlyOverduePending ==
    [][opts.kind = "zombie" =>
          /\ (pc = "scan" /\ pc' = "exec") =>
                \A i \in 1..Len(page') : \E r \in ScanTable(opts) :
                    /\ ObjectStreamOf(r) = page'[i]
                    /\ r.status = pendingStatus
                    /\ r.zombie_deletion_deadline # NoTime
                    /\ r.zombie_deletion_deadline[1] < opts.cutoff
          /\ (pc = "exec" /\ results' # results) =>
                \A r \in objects : ObjectStreamOf(r) \notin Range(page) => r \in objects']_vars

\* A zombie-object pass whose page selected a Pending object and has run its
\* units, with a Committed object of the table left unselected and in place.
C5_Witness ==
    /\ opts.kind = "zombie"
    /\ pc = "exec"
    /\ Len(page) > 0
    /\ UnitsDone = Len(page)
    /\ \E r \in objects :
          /\ r.status = committedStatus
          /\ r \in objects0
          /\ ObjectStreamOf(r) \notin Range(page)

(***************************************************************************)
(* C6. A pass never executes two units for one object; and a pass that     *)
(* ran alone and returned without error executed exactly one unit for each *)
(* object that matched its predicate, and the object row and the segment   *)
(* rows of every one of them are gone.                                     *)
(***************************************************************************)
C6_OneUnitPerMatchingObject ==
    /\ NoDuplicates(units)
    /\ (pc = "done" /\ err = NoError /\ Quiet) =>
          /\ Range(units) = Matched0
          /\ \A o \in Matched0 :
                /\ ~HasObject(objects, o)
                /\ SegmentsOfStream(segments, o.StreamID) = {}

\* A first pass over three matching objects, read in more than one page, that
\* returned without error after three units.
C6_Witness ==
    /\ pc = "done"
    /\ err = NoError
    /\ Quiet
    /\ passes = 1
    /\ batchsize = 2
    /\ Len(units) = 3
    /\ Cardinality(objects0) = 3
    /\ objects = {}
    /\ segments = {}

(***************************************************************************)
(* C7. While a pass runs alone, every object that does not match its       *)
(* predicate, and every segment whose StreamID is not that of a matching   *)
(* object, stays as it was when the pass started, and no row is added.     *)
(***************************************************************************)
C7_NonMatchingUntouched ==
    Quiet =>
        /\ \A r \in objects0 : ObjectStreamOf(r) \notin Matched0 => r \in objects
        /\ \A s \in segments0 :
              (\A o \in Matched0 : o.StreamID # s.stream_id) => s \in segments
        /\ objects \subseteq objects0
        /\ segments \subseteq segments0

\* A pass that ran alone, removed a matching object and its segment, and
\* returned with a non-matching object and its segment in place.
C7_Witness ==
    /\ pc = "done"
    /\ Quiet
    /\ \E o \in Matched0 : HasObject(objects0, o) /\ ~HasObject(objects, o)
    /\ \E r \in objects :
          /\ ObjectStreamOf(r) \notin Matched0
          /\ SegmentsOfStream(segments, r.stream_id) # {}

(***************************************************************************)
(* C8. The zombie-object pass removes an object row only if the object is  *)
(* Pending at the moment its deletion unit executes.                       *)
(***************************************************************************)
C8_ZombieNeverDeletesCommitted ==
    [][opts.kind = "zombie" =>
          \A r \in objects : Removed(r) => r.status = pendingStatus]_vars

(***************************************************************************)
(* C9 as stated: a pass run again with the same options, after a pass that *)
(* ran alone and returned without error and with nothing written since,    *)
(* reads an empty first page, executes no unit and leaves the store as it  *)
(* is.                                                                     *)
(***************************************************************************)
C9_SecondPassIssuesNoUnit ==
    (passes >= 2 /\ prev /\ Quiet) =>
        /\ units = <<>>
        /\ page = <<>>
        /\ objects = objects0
        /\ segments = segments0

(***************************************************************************)
(* C9 amended: such a second pass removes no row and leaves the store as   *)
(* it is; it reads an empty first page and executes no unit when its scan  *)
(* reads the current table, not a snapshot older than the first pass.      *)
(***************************************************************************)
C9_SecondPassDeletesNothing ==
    (passes >= 2 /\ prev /\ Quiet) =>
        /\ objects = objects0
        /\ segments = segments0
        /\ ~opts.asOf => units = <<>> /\ page = <<>>

\* A second pass that returned after reading an empty first page of the
\* current table, the first pass having removed objects.
C9_Witness ==
    /\ passes = 2
    /\ prev
    /\ Quiet
    /\ pc = "done"
    /\ ~opts.asOf
    /\ objects # asOfObjects
    /\ units = <<>>

(***************************************************************************)
(* C10. A pass never visits an object twice; and a pass that returned      *)
(* without error, during which other clients only inserted objects that do *)
(* not match its predicate, visited every object that matched when it      *)
(* started.                                                                *)
(***************************************************************************)
C10_InsertsSkipNoMatchingObject ==
    /\ NoDuplicates(units)
    /\ (pc = "done" /\ err = NoError
            /\ \A i \in 1..Len(concurrent) : concurrent[i].what = "insert") =>
          Range(units) = Matched0

\* A pass of two pages between which a non-matching object was inserted at a
\* key after the first page's object and before the second page's.
C10_Witness ==
    /\ pc = "done"
    /\ err = NoError
    /\ Len(units) = 2
    /\ Len(concurrent) = 1
    /\ concurrent[1].what = "insert"
    /\ concurrent[1].at = 1
    /\ \E r \in objects \ objects0 :
          /\ KeyGT(r, units[1])
          /\ ~KeyGT(r, units[2])
          /\ ~KeyEq(r, units[2])

\* The key tuple of an ObjectStream, and the order of key tuples.
KeyOf(o) == <<o.ProjectID, o.BucketName, o.ObjectKey, o.Version>>

TupleLT(x, y) ==
    \E i \in 1..4 : x[i] < y[i] /\ \A j \in 1..(i - 1) : x[j] = y[j]

\* A sequence of ObjectStreams in strictly ascending key order.
Ascending(seq) ==
    \A i, j \in 1..Len(seq) : i < j => TupleLT(KeyOf(seq[i]), KeyOf(seq[j]))

(***************************************************************************)
(* C11. Within one pass the objects are visited in strictly ascending      *)
(* order of the key tuple; the cursor of the pass never moves back, and    *)
(* when the pass goes on from a page to the next the page held objects and *)
(* the cursor has moved strictly forward, to the page's last object.       *)
(***************************************************************************)
C11_VisitsAscendCursorAdvances ==
    [][/\ Ascending(units')
       /\ passes' = passes =>
             \/ startAfter' = startAfter
             \/ TupleLT(KeyOf(startAfter), KeyOf(startAfter'))
       /\ (pc = "exec" /\ pc' = "scan") =>
             /\ Len(page) > 0
             /\ startAfter' = page[Len(page)]
             /\ TupleLT(KeyOf(startAfter), KeyOf(startAfter'))]_vars

\* A pass that went through three pages of one object each and returned, the
\* cursor at the third object.
C11_Witness ==
    /\ pc = "done"
    /\ err = NoError
    /\ batches = <<1, 1, 1>>
    /\ Len(units) = 3
    /\ startAfter = units[3]

(***************************************************************************)
(* The expired-object pass over tables of up to five objects, run alone.   *)
(***************************************************************************)
\* Key tuples of the tables, differing in each component of the key.
BatchKeys ==
    {<<1, 1, 1, 1>>, <<1, 1, 1, 2>>, <<1, 1, 2, 1>>, <<1, 2, 1, 1>>, <<2, 1, 1, 1>>}

\* opts.BatchSize given to the pass.
BatchSpecSizes == {-1, 0, 1, 2, 3, 1001}

\* Tables of Committed objects, each expiring at time 1 or never.
BatchTables ==
    UNION {
      { {Row(k, KeyRank(k, keys), committedStatus, ex[k], 1) : k \in keys} :
            ex \in [keys -> NullableTimes] }
      : keys \in SUBSET BatchKeys }

BatchInit ==
    /\ objects \in BatchTables
    /\ segments = {[stream_id |-> r.stream_id, position |-> 1] : r \in objects}
    /\ asOfObjects = objects
    /\ nextStream = Cardinality(objects) + 1
    /\ pc = "idle"
    /\ opts = NoOpts
    /\ batchsize = 0
    /\ startAfter = ZeroObjectStream
    /\ page = <<>>
    /\ results = <<>>
    /\ err = NoError
    /\ meter = NoMeter
    /\ objects0 = objects
    /\ segments0 = segments
    /\ units = <<>>
    /\ concurrent = <<>>
    /\ passes = 0
    /\ writes = 0
    /\ prev = FALSE
    /\ batches = <<>>
    /\ NoRepair
    /\ NoReputation
    /\ NoFilesystem
    /\ NoUsers
    /\ NoCommands

BatchNext ==
    \/ \E asOf \in BOOLEAN, b \in BatchSpecSizes : StartPass("expired", 2, asOf, b)
    \/ ReadPage
    \/ ReadPageFails
    \/ \E stage \in {"ok"} \cup FailStages : ExecUnit(stage)
    \/ FinishPage

BatchSpec == BatchInit /\ [][BatchNext]_vars

(***************************************************************************)
(* C12. A pass that returns without error over N matching objects with     *)
(* batch size B has sent ceil(N/B) batches, each of B objects except the   *)
(* last, which holds the remainder; every matching object row and every    *)
(* segment row of its StreamID is deleted.                                 *)
(***************************************************************************)
C12_BatchesOfBatchSize ==
    (pc = "done" /\ err = NoError) =>
        LET N == Cardinality(Matched0)
            B == batchsize
            full == N \div B
            rest == N % B
        IN  /\ Len(batches) = full + (IF rest = 0 THEN 0 ELSE 1)
            /\ \A i \in 1..full : batches[i] = B
            /\ rest # 0 => batches[Len(batches)] = rest
            /\ \A o \in Matched0 :
                  /\ ~HasObject(objects, o)
                  /\ SegmentsOfStream(segments, o.StreamID) = {}

\* Five expired objects deleted with batch size 2 in batches of 2, 2 and 1.
C12_Witness ==
    /\ pc = "done"
    /\ err = NoError
    /\ batchsize = 2
    /\ Cardinality(Matched0) = 5
    /\ batches = <<2, 2, 1>>
    /\ Len(units) = 5
    /\ objects = {}
    /\ segments = {}

\* Rows the current page's batch removed from a table: the rows affected by the
\* k-th statement (1 = START, 2 = DELETE objects, 3 = DELETE segments,
\* 4 = COMMIT) of every unit of the page that committed.
RowsRemoved(k) ==
    SumRows(results, {4 * (j - 1) + (k - 1) : j \in {i \in 1..UnitsDone : ~UnitFailed(i)}})

(***************************************************************************)
(* C13. After a page, the objects-deleted counter is marked with exactly   *)
(* the number of object rows the page's deletions removed and the          *)
(* segments-deleted counter with exactly the number of segment rows        *)
(* removed; stated here for the pages whose deletion units all succeeded,  *)
(* of any size.                                                            *)
(***************************************************************************)
C13_CountersMatchRowsRemoved ==
    (pc \in {"scan", "done"} /\ err = NoError /\ Len(page) > 0) =>
        /\ meter.object_delete = RowsRemoved(2)
        /\ meter.segment_delete = RowsRemoved(3)

(***************************************************************************)
(* The pass run alone with its steps scheduled: the goroutine that runs    *)
(* the pass goes on with its next step (the page's query, the next result  *)
(* of the batch, the return of deleteBatch) whenever it has one.           *)
(***************************************************************************)
PassStep ==
    \/ ReadPage
    \/ ReadPageFails
    \/ \E stage \in {"ok"} \cup FailStages : ExecUnit(stage)
    \/ FinishPage

FairBatchSpec == BatchInit /\ [][BatchNext]_vars /\ WF_vars(PassStep)

(***************************************************************************)
(* C14. Over a finite table with no concurrent inserts every pass          *)
(* terminates: a pass that has started eventually returns; and no page of  *)
(* the pass holds an object the pass has already issued a unit for, so a   *)
(* unit that keeps failing is not tried again within the pass.             *)
(***************************************************************************)
C14_PassTerminates ==
    /\ [][(pc = "scan" /\ pc' = "exec") =>
             \A i \in 1..Len(units), j \in 1..Len(page') : page'[j] # units[i]]_vars
    /\ (pc \in {"scan", "exec"}) ~> (pc = "done")

\* A pass that returned with the error of a unit whose object is still in the
\* table and still matches the predicate.
C14_Witness ==
    /\ pc = "done"
    /\ err.kind = "delete"
    /\ \E i \in 1..Len(page) :
          /\ UnitFailed(i)
          /\ \E r \in objects :
                ObjectStreamOf(r) = page[i] /\ Eligible(opts.kind, r, opts.cutoff)
    /\ Len(batches) = 2

(***************************************************************************)
(* C15. A pass has at most one page in flight: a page is read only when    *)
(* every result of the previous page's batch is in, and results come in    *)
(* only for the units of the current page, one unit after the other.       *)
(***************************************************************************)
C15_OnePageInFlight ==
    [][/\ (pc = "scan" /\ pc' = "exec") => Len(results) = 4 * Len(page)
       /\ (results' # results /\ results' # <<>>) =>
             /\ page' = page
             /\ Len(results') = Len(results) + 4
             /\ Len(results') <= 4 * Len(page)
             /\ units'[Len(units')] = page[Len(results') \div 4]]_vars

\* The batch of a pass's second page under way, after the batch of its first
\* page, of two objects, was completed.
C15_Witness ==
    /\ pc = "exec"
    /\ batches = <<2, 1>>
    /\ Len(units) = 3
    /\ Len(results) = 4

(***************************************************************************)
(* The Segment Repairer: Repair(ctx, job), step by step.                   *)
(***************************************************************************)
NodesOf(list) == {p.NodeID : p \in list}
NumbersOf(list) == {p.PieceNumber : p \in list}

\* The pieces of a list that lie on reachable nodes.
HealthyPieces(list) == {p \in list : p.NodeID \in reachable}

\* Step 1: the healthy-piece count already meets OptimalThreshold.
AlreadyHealthy(list) == Cardinality(HealthyPieces(list)) >= OptimalThreshold

\* Mutant of IsIrreparable: only a segment with no healthy piece is irreparable.
IsIrreparableNoneLeft(list) == Cardinality(HealthyPieces(list)) = 0

\* Mutant of IsIrreparable: the comparison written as <=.
IsIrreparableInclusive(list) == Cardinality(HealthyPieces(list)) <= RequiredPieces

\* Step 2: the healthy-piece count is below RequiredPieces.
IsIrreparable(list) == Cardinality(HealthyPieces(list)) < RequiredPieces

\* Step 3: enough pieces were downloaded to reconstruct the payload.
CanReconstruct(got) == Cardinality(got) >= RequiredPieces

\* Step 5: the exclusion list passed to the overlay, and the number of
\* replacement nodes asked for.
ExcludeList(list) == NodesOf(list)
Wanted(list) == OptimalThreshold - Cardinality(HealthyPieces(list))

\* Mutant of SelectReplacement: the exclusion list is not applied.
SelectReplacementNoExclusion(count, exclude) ==
    LET pool == reachable \ lowRep
    IN  {S \in SUBSET pool : Cardinality(S) = count}

\* Overlay SelectReplacement(count, excludeNodeIDs, minReputationScore): the
\* answers it can give; none when the eligible pool is smaller than count
\* (InsufficientNodes).
SelectReplacement(count, exclude) ==
    LET pool == (reachable \ exclude) \ lowRep
    IN  {S \in SUBSET pool : Cardinality(S) = count}

\* Step 6: the repair is accepted, also below the ideal count, when pieces
\* were uploaded and the healthy pieces and the uploaded ones together reach
\* RepairThreshold.
UploadAccepted(healthy, succ) ==
    /\ succ # {}
    /\ Cardinality(healthy) + Cardinality(succ) >= RepairThreshold

\* The elements of a set of integers, ascending.
RECURSIVE Sorted(_)
Sorted(S) ==
    IF S = {} THEN <<>>
    ELSE LET m == CHOOSE x \in S : \A y \in S : x <= y
         IN  <<m>> \o Sorted(S \ {m})

\* Step 4 and 6: the reconstructed pieces, the missing piece numbers given to
\* the nodes the uploads succeeded on.
NewPieces(healthy, succ) ==
    LET nodes == Sorted(succ)
        numbers == Sorted((0..(TotalPieces - 1)) \ NumbersOf(healthy))
    IN  {[NodeID |-> nodes[i], PieceNumber |-> numbers[i]] : i \in 1..Len(nodes)}

\* The piece list a repair commits: the healthy pieces and the new ones.
RepairedPieces(list, succ) ==
    HealthyPieces(list) \cup NewPieces(HealthyPieces(list), succ)

\* Mutant of ReplaceIfMatch: the new pieces are added to the list as it is now.
ReplaceOrMerge(current, expect, new) ==
    IF current = expect THEN new ELSE current \cup (new \ expect)

\* Step 7: replace the piece list on condition that it is the one loaded.
ReplaceIfMatch(current, expect, new) ==
    IF current = expect THEN new ELSE current

\* Mutant of ShouldRequeue: the comparison with the cap written as <=.
ShouldRequeueInclusive(j) == j.Attempts <= MaxAttempts

\* The worker's retry policy: re-enqueue while Attempts is below the cap.
ShouldRequeue(j) == j.Attempts < MaxAttempts

\* How the worker ends a job, given the outcome of Repair.
JobEnd(j, out) ==
    CASE out \in {"success", "healthy"} -> "repaired"
      [] out = "irreparable" -> "irreparable"
      [] out = "retryable" -> IF ShouldRequeue(j) THEN "requeued" ELSE "irreparable"

\* The garbage collection at rest over empty tables: its state in the
\* behaviours of the repair pipeline.
NoGC ==
    /\ objects = {}
    /\ segments = {}
    /\ asOfObjects = {}
    /\ nextStream = 1
    /\ pc = "idle"
    /\ opts = NoOpts
    /\ batchsize = 0
    /\ startAfter = ZeroObjectStream
    /\ page = <<>>
    /\ results = <<>>
    /\ err = NoError
    /\ meter = NoMeter
    /\ objects0 = {}
    /\ segments0 = {}
    /\ units = <<>>
    /\ concurrent = <<>>
    /\ passes = 0
    /\ writes = 0
    /\ prev = FALSE
    /\ batches = <<>>

\* The piece lists the segment can have when its repair is asked for: pieces
\* 0.. on nodes 1.., up to OptimalThreshold of them.
InitPieces ==
    {{[NodeID |-> i, PieceNumber |-> i - 1] : i \in 1..k} : k \in 3..OptimalThreshold}

RepairInit ==
    /\ pieces \in InitPieces
    /\ reachable \in SUBSET Nodes
    /\ lowRep \in SUBSET {5}
    /\ RepairIdle
    /\ NoGC
    /\ NoReputation
    /\ NoFilesystem
    /\ NoUsers
    /\ NoCommands

\* A repair attempt that returns from Repair with an outcome.
Returns(w, out) ==
    /\ outcome' = [outcome EXCEPT ![w] = out]
    /\ rpc' = [rpc EXCEPT ![w] = "finish"]

(***************************************************************************)
(* The repair queue and the Repair Worker Service.                         *)
(***************************************************************************)
\* The checker enqueues a job for the segment.
EnqueueJob(limit) ==
    /\ enqueued < limit
    /\ queue' = Append(queue, NewJob)
    /\ enqueued' = enqueued + 1
    /\ UNCHANGED <<pieces, reachable, lowRep, rpc, job, expected, selected, uploaded,
                   outcome, cancelled, dequeued, ended, nonRepairVars>>

Enqueue == EnqueueJob(MaxJobs)

\* The limiter admits a job to every worker, busy or not.
AcceptsJobWhileBusy(w) == ~cancelled

\* A worker slot takes a job only when it is free and the service is not cancelled.
AcceptsJob(w) == ~cancelled /\ rpc[w] = "idle"

\* A free worker takes the oldest job off the queue and starts Repair.
Dequeue(w) ==
    /\ AcceptsJob(w)
    /\ queue # <<>>
    /\ job' = [job EXCEPT ![w] = Head(queue)]
    /\ queue' = Tail(queue)
    /\ rpc' = [rpc EXCEPT ![w] = "load"]
    /\ dequeued' = dequeued + 1
    /\ UNCHANGED <<pieces, reachable, lowRep, expected, selected, uploaded, outcome,
                   cancelled, enqueued, ended, nonRepairVars>>

\* Steps 1 and 2: load the piece list and classify the segment.
RepairLoad(w) ==
    /\ rpc[w] = "load"
    /\ expected' = [expected EXCEPT ![w] = pieces]
    /\ IF AlreadyHealthy(pieces) THEN Returns(w, "healthy")
       ELSE IF IsIrreparable(pieces) THEN Returns(w, "irreparable")
       ELSE rpc' = [rpc EXCEPT ![w] = "download"] /\ outcome' = outcome
    /\ UNCHANGED <<pieces, reachable, lowRep, queue, job, selected, uploaded,
                   cancelled, enqueued, dequeued, ended, nonRepairVars>>

\* Steps 3 and 4: download pieces from the reachable nodes; some downloads may
\* fail; with too few pieces the attempt fails as retryable.
RepairDownload(w, got) ==
    /\ rpc[w] = "download"
    /\ got \subseteq HealthyPieces(expected[w])
    /\ IF CanReconstruct(got)
       THEN rpc' = [rpc EXCEPT ![w] = "select"] /\ outcome' = outcome
       ELSE Returns(w, "retryable")
    /\ UNCHANGED <<pieces, reachable, lowRep, queue, job, expected, selected, uploaded,
                   cancelled, enqueued, dequeued, ended, nonRepairVars>>

\* Step 5: the overlay returns the replacement nodes.
RepairSelect(w, nodes) ==
    /\ rpc[w] = "select"
    /\ nodes \in SelectReplacement(Wanted(expected[w]), ExcludeList(expected[w]))
    /\ selected' = [selected EXCEPT ![w] = nodes]
    /\ rpc' = [rpc EXCEPT ![w] = "upload"]
    /\ UNCHANGED <<pieces, reachable, lowRep, queue, job, expected, uploaded, outcome,
                   cancelled, enqueued, dequeued, ended, nonRepairVars>>

\* Step 5: the overlay fails with InsufficientNodes; the attempt is retryable.
RepairSelectFails(w) ==
    /\ rpc[w] = "select"
    /\ SelectReplacement(Wanted(expected[w]), ExcludeList(expected[w])) = {}
    /\ Returns(w, "retryable")
    /\ UNCHANGED <<pieces, reachable, lowRep, queue, job, expected, selected, uploaded,
                   cancelled, enqueued, dequeued, ended, nonRepairVars>>

\* Step 6: upload to the selected nodes; the uploads to succ succeed.
RepairUpload(w, succ) ==
    /\ rpc[w] = "upload"
    /\ succ \subseteq selected[w]
    /\ uploaded' = [uploaded EXCEPT ![w] = succ]
    /\ IF UploadAccepted(HealthyPieces(expected[w]), succ)
       THEN rpc' = [rpc EXCEPT ![w] = "commit"] /\ outcome' = outcome
       ELSE Returns(w, "retryable")
    /\ UNCHANGED <<pieces, reachable, lowRep, queue, job, expected, selected,
                   cancelled, enqueued, dequeued, ended, nonRepairVars>>

\* Step 7: the conditional replace of the piece list; a mismatch is retryable.
RepairCommit(w) ==
    /\ rpc[w] = "commit"
    /\ pieces' = ReplaceIfMatch(pieces, expected[w], RepairedPieces(expected[w], uploaded[w]))
    /\ Returns(w, IF pieces = expected[w] THEN "success" ELSE "retryable")
    /\ UNCHANGED <<reachable, lowRep, queue, job, expected, selected, uploaded,
                   cancelled, enqueued, dequeued, ended, nonRepairVars>>

\* The worker ends the job: drops it as repaired, re-enqueues it with Attempts
\* incremented, or reports it Irreparable; the worker is free again.
Finish(w) ==
    /\ rpc[w] = "finish"
    /\ LET how == JobEnd(job[w], outcome[w])
       IN  /\ ended' = Append(ended, [Attempts |-> job[w].Attempts, how |-> how,
                                      outcome |-> outcome[w]])
           /\ queue' = IF how = "requeued"
                       THEN Append(queue, [Attempts |-> job[w].Attempts + 1])
                       ELSE queue
    /\ rpc' = [rpc EXCEPT ![w] = "idle"]
    /\ job' = [job EXCEPT ![w] = NoJob]
    /\ expected' = [expected EXCEPT ![w] = {}]
    /\ selected' = [selected EXCEPT ![w] = {}]
    /\ uploaded' = [uploaded EXCEPT ![w] = {}]
    /\ outcome' = [outcome EXCEPT ![w] = "none"]
    /\ UNCHANGED <<pieces, reachable, lowRep, cancelled, enqueued, dequeued,
                   nonRepairVars>>

\* The context of the service is cancelled: no further job is accepted.
Cancel ==
    /\ ~cancelled
    /\ cancelled' = TRUE
    /\ UNCHANGED <<pieces, reachable, lowRep, queue, rpc, job, expected, selected,
                   uploaded, outcome, enqueued, dequeued, ended, nonRepairVars>>

RepairNext ==
    \/ Enqueue
    \/ \E w \in Workers : Dequeue(w)
    \/ \E w \in Workers : RepairLoad(w)
    \/ \E w \in Workers : \E got \in SUBSET pieces : RepairDownload(w, got)
    \/ \E w \in Workers : \E nodes \in SUBSET Nodes : RepairSelect(w, nodes)
    \/ \E w \in Workers : RepairSelectFails(w)
    \/ \E w \in Workers : \E succ \in SUBSET Nodes : RepairUpload(w, succ)
    \/ \E w \in Workers : RepairCommit(w)
    \/ \E w \in Workers : Finish(w)
    \/ Cancel

RepairSpec == RepairInit /\ [][RepairNext]_vars

(***************************************************************************)
(* Vocabulary of the properties of the repair pipeline.                    *)
(***************************************************************************)
\* Number of pieces of a list on reachable nodes.
HealthyCount(list) == Cardinality({p \in list : p.NodeID \in reachable})

\* The worker is inside Repair or holds its outcome.
InRepair(w) == rpc[w] \notin {"idle", "load"}

NoDuplicateNodes(list) == \A p, q \in list : p.NodeID = q.NodeID => p = q

(***************************************************************************)
(* C16. For a segment whose healthy-piece count is below RequiredPieces,   *)
(* Repair returns Irreparable, selects no node, uploads nothing, and the   *)
(* segment's piece list is the one it loaded.                              *)
(***************************************************************************)
C16_IrreparableBelowRequired ==
    \A w \in Workers :
        (InRepair(w) /\ HealthyCount(expected[w]) < RequiredPieces) =>
            /\ rpc[w] = "finish"
            /\ outcome[w] = "irreparable"
            /\ selected[w] = {}
            /\ uploaded[w] = {}
            /\ pieces = expected[w]

\* Repair returned Irreparable for a segment with one healthy piece left of four.
C16_Witness ==
    \E w \in Workers :
        /\ rpc[w] = "finish"
        /\ outcome[w] = "irreparable"
        /\ Cardinality(expected[w]) = 4
        /\ HealthyCount(expected[w]) = 1

(***************************************************************************)
(* C17. For a segment whose healthy-piece count is at least RequiredPieces *)
(* Repair never returns Irreparable, whatever fails during the attempt.    *)
(***************************************************************************)
C17_NeverIrreparableAtRequired ==
    \A w \in Workers :
        (InRepair(w) /\ HealthyCount(expected[w]) >= RequiredPieces) =>
            outcome[w] # "irreparable"

\* Repair returned a retryable failure for a segment with exactly RequiredPieces
\* healthy pieces: one of its two uploads failed, and its conditional replace
\* met a piece list that another repair had changed.
C17_Witness ==
    \E w \in Workers :
        /\ rpc[w] = "finish"
        /\ outcome[w] = "retryable"
        /\ HealthyCount(expected[w]) = RequiredPieces
        /\ Cardinality(selected[w]) = 2
        /\ Cardinality(uploaded[w]) = 1
        /\ pieces # expected[w]

(***************************************************************************)
(* C18 as stated: after a repair that reports success the segment's        *)
(* healthy-piece count is at least RepairThreshold and no node of its      *)
(* committed piece list was in the exclusion list passed to the overlay.   *)
(***************************************************************************)
C18_CommittedListAvoidsExcluded ==
    \A w \in Workers :
        outcome[w] = "success" =>
            /\ HealthyCount(pieces) >= RepairThreshold
            /\ {p.NodeID : p \in pieces} \cap {p.NodeID : p \in expected[w]} = {}

(***************************************************************************)
(* C18 amended: after a repair that reports success the segment's          *)
(* healthy-piece count is at least RepairThreshold, no piece the repair    *)
(* added is on a node of the exclusion list passed to the overlay (the     *)
(* nodes that held a piece when the list was loaded) or on a node below    *)
(* the minimum reputation score, and no two pieces of the list are on one  *)
(* node; the healthy pieces it kept stay on their nodes.                   *)
(***************************************************************************)
C18_AddedPiecesAvoidExcluded ==
    \A w \in Workers :
        outcome[w] = "success" =>
            /\ HealthyCount(pieces) >= RepairThreshold
            /\ uploaded[w] \cap {p.NodeID : p \in expected[w]} = {}
            /\ uploaded[w] \cap lowRep = {}
            /\ NoDuplicateNodes(pieces)
            /\ {p \in expected[w] : p.NodeID \in reachable} \subseteq pieces

\* A repair that reports success after it dropped an unreachable piece and
\* added pieces on two nodes, a node of low reputation left aside.
C18_Witness ==
    \E w \in Workers :
        /\ outcome[w] = "success"
        /\ Cardinality(uploaded[w]) = 2
        /\ expected[w] \ pieces # {}
        /\ lowRep \cap reachable # {}
        /\ pieces # expected[w]

\* The step in which worker w's conditional replace is executed.
Commits(w) == rpc[w] = "commit" /\ rpc'[w] = "finish"

(***************************************************************************)
(* C19. When two repairs of the segment race, having loaded the same piece *)
(* list, the conditional replace succeeds for at most one of them: a       *)
(* replace that finds the list changed changes nothing and the repair      *)
(* fails as retryable; and the piece list never has two pieces on one node *)
(* nor more than TotalPieces pieces.                                       *)
(***************************************************************************)
C19_RaceCommitsOnce ==
    [][/\ \A w \in Workers : Commits(w) =>
             IF pieces = expected[w]
             THEN outcome'[w] = "success"
             ELSE pieces' = pieces /\ outcome'[w] = "retryable"
       /\ \A w, v \in Workers :
             (w # v /\ InRepair(w)' /\ InRepair(v)' /\ expected'[w] = expected'[v]) =>
                 ~(outcome'[w] = "success" /\ outcome'[v] = "success")
       /\ NoDuplicateNodes(pieces')
       /\ Cardinality(pieces') <= TotalPieces]_vars

\* Two repairs that loaded the same piece list and both uploaded to the same
\* node: one replaced the list, the other met the mismatch and is retryable.
C19_Witness ==
    \E w, v \in Workers :
        /\ rpc[w] = "finish" /\ outcome[w] = "success"
        /\ rpc[v] = "finish" /\ outcome[v] = "retryable"
        /\ expected[w] = expected[v]
        /\ uploaded[w] \cap uploaded[v] # {}
        /\ uploaded[v] \ uploaded[w] # {}

\* The step in which worker w ends its job.
Ends(w) == rpc[w] = "finish" /\ rpc'[w] = "idle"

(***************************************************************************)
(* C20. No job is dropped silently: every dequeued job is in the hands of  *)
(* a worker or has ended, and a job ends as repaired, as re-enqueued with  *)
(* Attempts incremented by one, or as reported Irreparable; a job whose    *)
(* repair failed as retryable is re-enqueued only while its Attempts is    *)
(* below the cap and is reported Irreparable once the cap is reached.      *)
(***************************************************************************)
C20_JobNeverDropped ==
    [][/\ dequeued' = Len(ended') + Cardinality({w \in Workers : rpc'[w] # "idle"})
       /\ \A w \in Workers : Ends(w) =>
             LET end == ended'[Len(ended')]
             IN  /\ Len(ended') = Len(ended) + 1
                 /\ end.Attempts = job[w].Attempts
                 /\ \/ /\ outcome[w] \in {"success", "healthy"}
                       /\ end.how = "repaired"
                       /\ queue' = queue
                    \/ /\ outcome[w] = "retryable"
                       /\ job[w].Attempts < MaxAttempts
                       /\ end.how = "requeued"
                       /\ queue' = Append(queue, [Attempts |-> job[w].Attempts + 1])
                    \/ /\ \/ outcome[w] = "irreparable"
                          \/ outcome[w] = "retryable" /\ job[w].Attempts >= MaxAttempts
                       /\ end.how = "irreparable"
                       /\ queue' = queue]_vars

\* A job that failed as retryable, was re-enqueued, failed again at the cap
\* and was reported Irreparable; and a job that ended repaired.
C20_Witness ==
    \E i, j, k \in 1..Len(ended) :
        /\ i < j
        /\ ended[i] = [Attempts |-> 0, how |-> "requeued", outcome |-> "retryable"]
        /\ ended[j] = [Attempts |-> MaxAttempts, how |-> "irreparable", outcome |-> "retryable"]
        /\ ended[k].how = "repaired" /\ ended[k].outcome = "success"

\* ---------------------------------------------------------------------------
\* The worker pool with more jobs than worker slots.
\* ---------------------------------------------------------------------------

MaxPoolJobs == MaxConcurrentRepairs + 1

PoolInit ==
    /\ pieces = {[NodeID |-> i, PieceNumber |-> i - 1] : i \in 1..RepairThreshold}
    /\ reachable \in {Nodes, Nodes \ {6}, {1, 2}}
    /\ lowRep = {}
    /\ RepairIdle
    /\ NoGC
    /\ NoReputation
    /\ NoFilesystem
    /\ NoUsers
    /\ NoCommands

PoolNext ==
    \/ EnqueueJob(MaxPoolJobs)
    \/ \E w \in Workers : Dequeue(w)
    \/ \E w \in Workers : RepairLoad(w)
    \/ \E w \in Workers : \E got \in SUBSET pieces : RepairDownload(w, got)
    \/ \E w \in Workers : \E nodes \in SUBSET Nodes : RepairSelect(w, nodes)
    \/ \E w \in Workers : RepairSelectFails(w)
    \/ \E w \in Workers : \E succ \in SUBSET Nodes : RepairUpload(w, succ)
    \/ \E w \in Workers : RepairCommit(w)
    \/ \E w \in Workers : Finish(w)
    \/ Cancel

PoolSpec == PoolInit /\ [][PoolNext]_vars

\* Repair attempts that were started and have not ended yet.
InFlight == dequeued - Len(ended)

\* C21: at every moment at most MaxConcurrentRepairs repair attempts are in
\* flight, and once the service is cancelled no further job is taken off the
\* queue while the attempts in flight only drain.
C21_PoolBoundedAndDrains ==
    [][/\ InFlight' <= MaxConcurrentRepairs
       /\ cancelled => (dequeued' = dequeued /\ InFlight' <= InFlight)]_vars

\* The service is cancelled with a job left on the queue; both slots took a
\* job, one attempt has ended and the other is about to commit.
C21_Witness ==
    /\ cancelled
    /\ queue # <<>>
    /\ dequeued = MaxConcurrentRepairs
    /\ InFlight = MaxConcurrentRepairs - 1
    /\ enqueued = MaxPoolJobs
    /\ \E w \in Workers : rpc[w] = "commit"

(***************************************************************************)
(* A pass run alone over a table in which one object carries the all-zero  *)
(* StreamID.                                                               *)
(***************************************************************************)
ZeroStreamTables ==
    UNION {
      { {Row(k, IF KeyRank(k, keys) = z THEN 0 ELSE KeyRank(k, keys),
             committedStatus, ex[k], 1) : k \in keys} :
            ex \in [keys -> NullableTimes], z \in 1..Cardinality(keys) }
      : keys \in (SUBSET BatchKeys) \ {{}} }

ZeroStreamInit ==
    /\ objects \in ZeroStreamTables
    /\ segments = {[stream_id |-> r.stream_id, position |-> 1] : r \in objects}
    /\ asOfObjects = objects
    /\ nextStream = Cardinality(objects) + 1
    /\ pc = "idle"
    /\ opts = NoOpts
    /\ batchsize = 0
    /\ startAfter = ZeroObjectStream
    /\ page = <<>>
    /\ results = <<>>
    /\ err = NoError
    /\ meter = NoMeter
    /\ objects0 = objects
    /\ segments0 = segments
    /\ units = <<>>
    /\ concurrent = <<>>
    /\ passes = 0
    /\ writes = 0
    /\ prev = FALSE
    /\ batches = <<>>
    /\ NoRepair
    /\ NoReputation
    /\ NoFilesystem
    /\ NoUsers
    /\ NoCommands

ZeroStreamSpec == ZeroStreamInit /\ [][BatchNext]_vars

\* The objects of the scanned table that match and lie after the cursor c.
MatchingAfter(c) ==
    {r \in ScanTable(opts) : /\ Eligible(opts.kind, r, opts.cutoff)
                             /\ TupleLT(KeyOf(c), KeyOf(ObjectStreamOf(r)))}

(***************************************************************************)
(* C27. A pass stops without error only when a page read returned no       *)
(* objects: when it has returned nil, its last page was empty and no       *)
(* matching object lies after the cursor, whatever the StreamID of the     *)
(* last object of the page before.                                         *)
(***************************************************************************)
C27_StopsOnlyOnEmptyPage ==
    (pc = "done" /\ err = NoError) =>
        /\ page = <<>>
        /\ MatchingAfter(startAfter) = {}

(***************************************************************************)
(* C28. Every pass starts with the cursor at the zero key tuple, whatever  *)
(* the pass before it left; a second pass that returns without error,      *)
(* with no writer during it, has deleted every object that matched when    *)
(* it started, also after a first pass that was aborted.                   *)
(***************************************************************************)
C28_EveryPassRescansFromZero ==
    /\ [][passes' # passes => KeyOf(startAfter') = <<0, 0, 0, 0>>]_vars
    /\ []((passes = MaxPasses /\ pc = "done" /\ err = NoError /\ Quiet) =>
              \A o \in Matched0 : ~HasObject(objects, o))

\* The first pass ran alone and was aborted by an error after its cursor had
\* moved; the second pass found matching objects left and deleted them.
C28_Witness ==
    /\ passes = MaxPasses
    /\ pc = "done"
    /\ err = NoError
    /\ writes = 0
    /\ ~prev
    /\ Len(batches) > 1
    /\ \E o \in Matched0 : HasObject(objects0, o)
    /\ \A o \in Matched0 : ~HasObject(objects, o)

(***************************************************************************)
(* C29. Every page holds only objects with key tuple strictly greater      *)
(* than the cursor, and at most the effective batch size of them: the      *)
(* LIMIT of the page is BatchSize when 1 <= BatchSize <= 1000, and lies    *)
(* in 1..1000 whatever BatchSize is.                                       *)
(***************************************************************************)
C29_PageAfterCursorWithinLimit ==
    pc = "exec" =>
        /\ \A i \in 1..Len(page) : TupleLT(KeyOf(startAfter), KeyOf(page[i]))
        /\ batchsize \in 1..deleteBatchsizeLimit
        /\ Len(page) <= batchsize
        /\ opts.BatchSize \in 1..deleteBatchsizeLimit =>
              (batchsize = opts.BatchSize /\ Len(page) <= opts.BatchSize)

\* A second page of two objects read with BatchSize 2, after the cursor.
C29_Witness ==
    /\ pc = "exec"
    /\ opts.BatchSize = 2
    /\ startAfter # ZeroObjectStream
    /\ Len(page) = 2
    /\ Cardinality(Matched0) = 5

(***************************************************************************)
(* C30. When the SELECT of a page fails, the pass returns that error: the  *)
(* step issues no deletion unit and changes no row, so the deletions of    *)
(* the earlier pages stay, and once the pass has returned no further page  *)
(* is read and no unit is issued until another pass is started.            *)
(***************************************************************************)
C30_ScanFailureEndsPass ==
    [][/\ (pc = "scan" /\ pc' = "done") =>
             /\ err' = ScanError
             /\ objects' = objects /\ segments' = segments
             /\ units' = units /\ batches' = batches
       /\ (pc = "done" /\ passes' = passes) =>
             /\ units' = units /\ batches' = batches
             /\ objects' = objects /\ segments' = segments]_vars

\* The second page's SELECT failed: the first page's object stays deleted and
\* a matching object is left in the table.
C30_Witness ==
    /\ pc = "done"
    /\ err = ScanError
    /\ Len(batches) = 1
    /\ Len(units) > 0
    /\ \A i \in 1..Len(units) : ~HasObject(objects, units[i])
    /\ \E o \in Matched0 : HasObject(objects, o)

(***************************************************************************)
(* Reputation Tracker: Update(nodeID, outcome, ...).                       *)
(***************************************************************************)
\* The window after one more outcome: the oldest entries are evicted.
Slide(history, o) ==
    LET h == Append(history, o)
    IN  IF Len(h) > WindowLen THEN SubSeq(h, Len(h) - WindowLen + 1, Len(h)) ELSE h

\* The record after one audit outcome: its counter, the window and the
\* alpha/beta pair of the audit score.
Apply(rec, o) ==
    [AuditSuccessCount |-> rec.AuditSuccessCount + (IF o = AuditSuccess THEN 1 ELSE 0),
     AuditFailureCount |-> rec.AuditFailureCount + (IF o = AuditFailure THEN 1 ELSE 0),
     AuditUnknownCount |-> rec.AuditUnknownCount + (IF o = AuditUnknown THEN 1 ELSE 0),
     OfflineCount |-> rec.OfflineCount + (IF o = AuditOffline THEN 1 ELSE 0),
     AuditHistory |-> Slide(rec.AuditHistory, o),
     Alpha |-> rec.Alpha + (IF o = AuditSuccess THEN 1 ELSE 0),
     Beta |-> rec.Beta + (IF o = AuditFailure THEN 1 ELSE 0)]

\* The derived audit score alpha / (alpha + beta), as numerator and denominator.
AuditScore(rec) == <<rec.Alpha, rec.Alpha + rec.Beta>>

\* Mutant of EntersSection: Update reads the record without the node's lock.
EntersSectionUnlocked(n) == TRUE

\* The per-node critical section is free.
EntersSection(n) == lock[n] = 0

ReputationInit ==
    /\ NoReputation
    /\ NoGC
    /\ NoRepair
    /\ NoFilesystem
    /\ NoUsers
    /\ NoCommands

\* Update enters the critical section of the node and reads its record.
UpdateBegin(c, n, o) ==
    /\ call[c].state = "idle"
    /\ EntersSection(n)
    /\ lock' = [lock EXCEPT ![n] = c]
    /\ call' = [call EXCEPT ![c] = [state |-> "in", NodeID |-> n, AuditOutcome |-> o,
                                    read |-> records[n]]]
    /\ UNCHANGED <<records, applied, nonReputationVars>>

\* Update writes the new record, leaves the critical section and returns.
UpdateEnd(c) ==
    /\ call[c].state = "in"
    /\ LET n == call[c].NodeID
       IN  /\ records' = [records EXCEPT ![n] = Apply(call[c].read, call[c].AuditOutcome)]
           /\ applied' = [applied EXCEPT ![n] = Append(@, call[c].AuditOutcome)]
           /\ lock' = [lock EXCEPT ![n] = IF @ = c THEN 0 ELSE @]
    /\ call' = [call EXCEPT ![c].state = "done"]
    /\ UNCHANGED nonReputationVars

ReputationNext ==
    \/ \E c \in Callers, n \in RepNodes, o \in Outcomes : UpdateBegin(c, n, o)
    \/ \E c \in Callers : UpdateEnd(c)

ReputationSpec == ReputationInit /\ [][ReputationNext]_vars

\* Sum of the four outcome counters of a record.
CounterSum(rec) ==
    rec.AuditSuccessCount + rec.AuditFailureCount + rec.AuditUnknownCount + rec.OfflineCount

\* The Update calls on node n that have returned.
Returned(n) == {c \in Callers : call[c].state = "done" /\ call[c].NodeID = n}

\* The record that results from the outcomes of seq, one after the other,
\* starting from the empty record.
RECURSIVE Replay(_)
Replay(seq) ==
    IF seq = <<>> THEN EmptyRecord
    ELSE Apply(Replay(SubSeq(seq, 1, Len(seq) - 1)), seq[Len(seq)])

(***************************************************************************)
(* C22. Concurrent Update calls on one node lose no update: the outcome    *)
(* counters of a node sum to the number of Update calls on it that have    *)
(* returned, and its record and score are those of replaying the outcomes, *)
(* in the order they were written, from the empty record.                  *)
(***************************************************************************)
C22_NoLostUpdate ==
    \A n \in RepNodes :
        /\ CounterSum(records[n]) = Cardinality(Returned(n))
        /\ Len(applied[n]) = Cardinality(Returned(n))
        /\ records[n] = Replay(applied[n])
        /\ AuditScore(records[n]) = AuditScore(Replay(applied[n]))

\* Three updates of node 1 have returned and the first outcome has left the
\* window.
C22_Witness ==
    /\ Cardinality(Returned(1)) = MaxUpdates
    /\ CounterSum(records[1]) = MaxUpdates
    /\ records[1].AuditSuccessCount = 1
    /\ records[1].AuditFailureCount = 1
    /\ applied[1][1] = AuditSuccess
    /\ records[1].AuditHistory = <<AuditFailure, AuditOffline>>
    /\ AuditScore(records[1]) = <<2, 3>>

(***************************************************************************)
(* The filesystem of the uplink command tests (testFilesystem) and the     *)
(* copy of one file by cp.                                                 *)
(***************************************************************************)
Std(loc) == loc.Kind = "std"
\* Mutant of Remote: no location has a bucket to look up.
RemoteNever(loc) == FALSE

Remote(loc) == loc.Kind = "remote"
Local(loc) == loc.Kind = "local"

\* A local location that names a directory: it ends with a separator.
Directoryish(loc) ==
    Local(loc) /\ (loc.Path = <<>> \/ loc.Path[Len(loc.Path)] = "")

\* testFilesystem.IsLocalDir
IsLocalDir(t, loc) ==
    Local(loc) /\ (loc.Path = <<>> \/ (Has(t.locals, loc.Path) /\ t.locals[loc.Path]))

\* filepath.Dir: "." (the empty sequence) for a path of one component.
Dir(path) == SubSeq(path, 1, Len(path) - 1)

\* The directories mkdirAll makes for dir, in order.
Dirs(dir) ==
    IF dir = <<>> THEN << <<>> >> ELSE [i \in 1..Len(dir) |-> SubSeq(dir, 1, i)]

\* testFilesystem.mkdir
Mkdir(locals, dir) ==
    IF Has(locals, dir) /\ ~locals[dir]
    THEN [locals |-> locals, err |-> "cannot create directory: is a file"]
    ELSE [locals |-> Put(locals, dir, TRUE), err |-> ""]

\* testFilesystem.mkdirAll: stops at the first error, keeping what it made.
RECURSIVE MkdirAll(_, _)
MkdirAll(locals, dirs) ==
    IF dirs = <<>> THEN [locals |-> locals, err |-> ""]
    ELSE LET r == Mkdir(locals, Head(dirs))
         IN  IF r.err # "" THEN r ELSE MkdirAll(r.locals, Tail(dirs))

MemWriteHandle(loc, cre) ==
    [kind |-> "mem", loc |-> loc, buf |-> <<>>, cre |-> cre, done |-> FALSE,
     fate |-> "open"]

DiscardWriteHandle ==
    [kind |-> "discard", loc |-> StdLoc, buf |-> <<>>, cre |-> 0, done |-> FALSE,
     fate |-> "open"]

\* The handles pending at a location.
PendingAt(t, loc) == IF Has(t.pending, loc) THEN t.pending[loc] ELSE <<>>

\* Mutant of CreateResult: "-" is not set apart from the other locations.
CreateResultNoStd(t, id, loc) ==
    IF Remote(loc) /\ loc.Bucket \notin t.buckets
    THEN [tfs |-> t, wh |-> <<>>, err |-> "bucket does not exist"]
    ELSE IF Local(loc) /\ (Directoryish(loc) \/ IsLocalDir(t, loc))
    THEN [tfs |-> t, wh |-> <<>>, err |-> "unable to open file for writing"]
    ELSE LET mk == IF Local(loc) THEN MkdirAll(t.locals, Dirs(Dir(loc.Path)))
                   ELSE [locals |-> t.locals, err |-> ""]
         IN  IF mk.err # ""
             THEN [tfs |-> [t EXCEPT !.locals = mk.locals], wh |-> <<>>, err |-> mk.err]
             ELSE [tfs |-> [t EXCEPT !.locals = mk.locals,
                                     !.created = @ + 1,
                                     !.pending = Put(@, loc, Append(PendingAt(t, loc), id))],
                   wh |-> <<MemWriteHandle(loc, t.created + 1)>>,
                   err |-> ""]

\* testFilesystem.Create: the filesystem after the call, the handle returned
\* (id is its place among the handles) and the error.
CreateResult(t, id, loc) ==
    IF Std(loc)
    THEN [tfs |-> t, wh |-> <<DiscardWriteHandle>>, err |-> ""]
    ELSE IF Remote(loc) /\ loc.Bucket \notin t.buckets
    THEN [tfs |-> t, wh |-> <<>>, err |-> "bucket does not exist"]
    ELSE IF Local(loc) /\ (Directoryish(loc) \/ IsLocalDir(t, loc))
    THEN [tfs |-> t, wh |-> <<>>, err |-> "unable to open file for writing"]
    ELSE LET mk == IF Local(loc) THEN MkdirAll(t.locals, Dirs(Dir(loc.Path)))
                   ELSE [locals |-> t.locals, err |-> ""]
         IN  IF mk.err # ""
             THEN [tfs |-> [t EXCEPT !.locals = mk.locals], wh |-> <<>>, err |-> mk.err]
             ELSE [tfs |-> [t EXCEPT !.locals = mk.locals,
                                     !.created = @ + 1,
                                     !.pending = Put(@, loc, Append(PendingAt(t, loc), id))],
                   wh |-> <<MemWriteHandle(loc, t.created + 1)>>,
                   err |-> ""]

\* Mutant of CloseResult: a handle that is done can be closed again.
CloseResultAgain(t, h, id) ==
    LET handles == SelectSeq(PendingAt(t, h.loc), LAMBDA x : x # id)
    IN  [tfs |-> [t EXCEPT !.pending = IF Len(handles) > 0
                                       THEN Put(@, h.loc, handles)
                                       ELSE Del(@, h.loc)],
         wh |-> [h EXCEPT !.done = TRUE],
         err |-> ""]

\* Mutant of CloseResult: the emptied list of a location stays in the map.
CloseResultKeepsEmpty(t, h, id) ==
    IF h.done
    THEN [tfs |-> t, wh |-> h, err |-> "already done"]
    ELSE LET handles == SelectSeq(PendingAt(t, h.loc), LAMBDA x : x # id)
         IN  [tfs |-> [t EXCEPT !.pending = Put(@, h.loc, handles)],
              wh |-> [h EXCEPT !.done = TRUE],
              err |-> ""]

\* memWriteHandle.close: the handle leaves the pending list of its location.
CloseResult(t, h, id) ==
    IF h.done
    THEN [tfs |-> t, wh |-> h, err |-> "already done"]
    ELSE LET handles == SelectSeq(PendingAt(t, h.loc), LAMBDA x : x # id)
         IN  [tfs |-> [t EXCEPT !.pending = IF Len(handles) > 0
                                            THEN Put(@, h.loc, handles)
                                            ELSE Del(@, h.loc)],
              wh |-> [h EXCEPT !.done = TRUE],
              err |-> ""]

\* Mutant of CommitResult: a file already at the location is kept.
CommitResultKeepsExisting(t, h, id) ==
    IF h.kind = "discard"
    THEN [tfs |-> t, wh |-> [h EXCEPT !.fate = IF @ = "open" THEN "committed" ELSE @],
          err |-> ""]
    ELSE LET c == CloseResult(t, h, id)
         IN  IF c.err # "" THEN c
             ELSE [tfs |-> [c.tfs EXCEPT
                              !.locals = IF Local(h.loc) THEN Put(@, h.loc.Path, FALSE) ELSE @,
                              !.files = IF Has(@, h.loc) THEN @
                                        ELSE Put(@, h.loc, [contents |-> h.buf,
                                                            created |-> h.cre])],
                   wh |-> [c.wh EXCEPT !.fate = "committed"],
                   err |-> ""]

\* memWriteHandle.Commit, and discardWriteHandle.Commit for the handle of "-".
CommitResult(t, h, id) ==
    IF h.kind = "discard"
    THEN [tfs |-> t, wh |-> [h EXCEPT !.fate = IF @ = "open" THEN "committed" ELSE @],
          err |-> ""]
    ELSE LET c == CloseResult(t, h, id)
         IN  IF c.err # "" THEN c
             ELSE [tfs |-> [c.tfs EXCEPT
                              !.locals = IF Local(h.loc) THEN Put(@, h.loc.Path, FALSE) ELSE @,
                              !.files = Put(@, h.loc, [contents |-> h.buf,
                                                       created |-> h.cre])],
                   wh |-> [c.wh EXCEPT !.fate = "committed"],
                   err |-> ""]

\* Mutant of AbortResult: Abort writes the buffer like Commit.
AbortResultWrites(t, h, id) ==
    IF h.kind = "discard"
    THEN [tfs |-> t, wh |-> [h EXCEPT !.fate = IF @ = "open" THEN "aborted" ELSE @],
          err |-> ""]
    ELSE LET c == CloseResult(t, h, id)
         IN  IF c.err # "" THEN c
             ELSE [tfs |-> [c.tfs EXCEPT
                              !.files = Put(@, h.loc, [contents |-> h.buf,
                                                       created |-> h.cre])],
                   wh |-> [c.wh EXCEPT !.fate = "aborted"],
                   err |-> ""]

\* memWriteHandle.Abort, and discardWriteHandle.Abort for the handle of "-".
AbortResult(t, h, id) ==
    IF h.kind = "discard"
    THEN [tfs |-> t, wh |-> [h EXCEPT !.fate = IF @ = "open" THEN "aborted" ELSE @],
          err |-> ""]
    ELSE LET c == CloseResult(t, h, id)
         IN  IF c.err # "" THEN c
             ELSE [tfs |-> c.tfs, wh |-> [c.wh EXCEPT !.fate = "aborted"], err |-> ""]

\* testFilesystem.Open: the contents read, or the error.
OpenResult(t, loc) ==
    IF Std(loc) THEN [contents |-> <<StdinByte>>, err |-> ""]
    ELSE IF Has(t.files, loc) THEN [contents |-> t.files[loc].contents, err |-> ""]
    ELSE [contents |-> <<>>, err |-> "file does not exist"]

FsInit ==
    /\ NoFilesystem
    /\ NoGC
    /\ NoRepair
    /\ NoReputation
    /\ NoUsers
    /\ NoCommands

CallReturn(op, a, b, h, e) == [op |-> op, a |-> a, b |-> b, h |-> h, err |-> e]

FsCreate(loc) ==
    /\ Len(whs) < MaxHandles
    /\ LET id == Len(whs) + 1
           r == CreateResult(tfs, id, loc)
       IN  /\ tfs' = r.tfs
           /\ whs' = whs \o r.wh
           /\ ret' = CallReturn("Create", loc, NoLoc, IF r.wh = <<>> THEN 0 ELSE id, r.err)
    /\ UNCHANGED nonFsVars

\* memWriteHandle.Write appends to the buffer; discardWriteHandle.Write drops.
FsWrite(h, byte) ==
    /\ h \in 1..Len(whs)
    /\ Len(whs[h].buf) < MaxBytes
    /\ whs' = IF whs[h].kind = "mem"
              THEN [whs EXCEPT ![h].buf = Append(@, byte)]
              ELSE whs
    /\ ret' = CallReturn("Write", NoLoc, NoLoc, h, "")
    /\ UNCHANGED <<tfs, nonFsVars>>

FsCommit(h) ==
    /\ h \in 1..Len(whs)
    /\ LET r == CommitResult(tfs, whs[h], h)
       IN  /\ tfs' = r.tfs
           /\ whs' = [whs EXCEPT ![h] = r.wh]
           /\ ret' = CallReturn("Commit", NoLoc, NoLoc, h, r.err)
    /\ UNCHANGED nonFsVars

FsAbort(h) ==
    /\ h \in 1..Len(whs)
    /\ LET r == AbortResult(tfs, whs[h], h)
       IN  /\ tfs' = r.tfs
           /\ whs' = [whs EXCEPT ![h] = r.wh]
           /\ ret' = CallReturn("Abort", NoLoc, NoLoc, h, r.err)
    /\ UNCHANGED nonFsVars

\* Remove: the file at the location, if any, is dropped from the file map;
\* directories, pending uploads and handles stay; no error is returned.
RemoveResult(t, loc) == [t EXCEPT !.files = Del(@, loc)]

FsRemove(loc) ==
    /\ tfs' = RemoveResult(tfs, loc)
    /\ ret' = CallReturn("Remove", loc, NoLoc, 0, "")
    /\ UNCHANGED whs
    /\ UNCHANGED nonFsVars

\* cp of one file: Open the source, Create the destination, copy, then
\* Commit; Abort when the copy fails.
Cp(src, dst, fail) ==
    /\ Len(whs) < MaxHandles
    /\ LET id == Len(whs) + 1
           o == OpenResult(tfs, src)
           c == CreateResult(tfs, id, dst)
       IN  IF o.err # ""
           THEN /\ ret' = CallReturn("cp", src, dst, 0, o.err)
                /\ UNCHANGED <<tfs, whs>>
           ELSE IF c.err # ""
           THEN /\ tfs' = c.tfs
                /\ ret' = CallReturn("cp", src, dst, 0, c.err)
                /\ UNCHANGED whs
           ELSE LET w == IF c.wh[1].kind = "mem"
                         THEN [c.wh[1] EXCEPT !.buf = o.contents]
                         ELSE c.wh[1]
                    e == IF fail THEN AbortResult(c.tfs, w, id)
                         ELSE CommitResult(c.tfs, w, id)
                IN  /\ tfs' = e.tfs
                    /\ whs' = Append(whs, e.wh)
                    /\ ret' = CallReturn("cp", src, dst, id,
                                        IF fail THEN "copy failed" ELSE e.err)
    /\ UNCHANGED nonFsVars

FsNext ==
    \/ \E loc \in Locs : FsCreate(loc)
    \/ \E h \in 1..MaxHandles, byte \in Bytes : FsWrite(h, byte)
    \/ \E h \in 1..MaxHandles : FsCommit(h)
    \/ \E h \in 1..MaxHandles : FsAbort(h)
    \/ \E loc \in Locs : FsRemove(loc)
    \/ \E src \in Locs, dst \in Locs, fail \in BOOLEAN : Cp(src, dst, fail)

FsSpec == FsInit /\ [][FsNext]_vars

\* The local locations that hold a committed file.
CommittedLocal(t) == {l \in DOMAIN t.files : Local(l)}

\* p is a proper prefix of the path q.
ProperPrefix(p, q) == Len(p) < Len(q) /\ SubSeq(q, 1, Len(p)) = p

\* The path is a directory: the filesystem says so, or a committed file
\* lies beneath it.
IsDirectoryPath(t, p) ==
    \/ Has(t.locals, p) /\ t.locals[p]
    \/ \E l \in CommittedLocal(t) : ProperPrefix(p, l.Path)

(***************************************************************************)
(* C23. No local path is at once a committed file and a directory, after   *)
(* any sequence of Create, Commit and Abort.                               *)
(***************************************************************************)
C23_FileNeverDirectory ==
    \A l \in CommittedLocal(tfs) : ~IsDirectoryPath(tfs, l.Path)

(***************************************************************************)
(* C24. A cp of a file that succeeds leaves its source in place with the   *)
(* contents it had, and the destination, when it is not "-", holds those   *)
(* contents afterwards, whatever file was there before.                    *)
(***************************************************************************)
C24_CpKeepsSourceFillsDestination ==
    [][(ret'.op = "cp" /\ ret'.err = "" /\ ~Std(ret'.a)) =>
          LET src == ret'.a
              dst == ret'.b
          IN  /\ Has(tfs.files, src)
              /\ Has(tfs'.files, src)
              /\ tfs'.files[src].contents = tfs.files[src].contents
              /\ ~Std(dst) =>
                    /\ Has(tfs'.files, dst)
                    /\ tfs'.files[dst].contents = tfs.files[src].contents]_vars

\* cp has copied a file onto another location where an earlier handle had
\* committed other contents.
C24_Witness ==
    /\ ret.op = "cp"
    /\ ret.err = ""
    /\ ~Std(ret.a) /\ ~Std(ret.b)
    /\ ret.a # ret.b
    /\ tfs.files[ret.b].contents = tfs.files[ret.a].contents
    /\ tfs.files[ret.b].created = whs[ret.h].cre
    /\ \E h \in 1..Len(whs) :
          /\ h # ret.h
          /\ whs[h].loc = ret.b
          /\ whs[h].fate = "committed"
          /\ whs[h].buf # tfs.files[ret.b].contents

(***************************************************************************)
(* C25. Copying to "-" creates, changes and removes no file and no pending *)
(* upload: cp to "-", Create of "-", and Commit or Abort of the handle     *)
(* Create returned for "-" leave files and pending as they were.           *)
(***************************************************************************)
C25_StdoutTouchesNothing ==
    [][(\/ ret'.op = "cp" /\ Std(ret'.b)
        \/ ret'.op = "Create" /\ Std(ret'.a)
        \/ /\ ret'.op \in {"Commit", "Abort"}
           /\ ret'.h \in 1..Len(whs)
           /\ whs[ret'.h].kind = "discard")
       => (tfs'.files = tfs.files /\ tfs'.pending = tfs.pending)]_vars

\* A file was copied to "-" while a file and a pending upload existed.
C25_Witness ==
    /\ ret.op = "cp"
    /\ ret.err = ""
    /\ Std(ret.b)
    /\ ~Std(ret.a)
    /\ whs[ret.h].kind = "discard"
    /\ DOMAIN tfs.pending # {}
    /\ Cardinality(DOMAIN tfs.files) = 1

(***************************************************************************)
(* The users table of the console: Insert, UpdatePaidTier, Get.            *)
(***************************************************************************)
FullName == "first name last name"
ShortName == "short name"

\* The row Insert stores for a new user: PaidTier is false.
NewUser(id, email) ==
    [ID |-> id, Email |-> email, FullName |-> FullName, ShortName |-> ShortName,
     Status |-> "Active", PaidTier |-> FALSE]

\* Mutant of PaidTierSet: the paid tier is granted and never taken back.
PaidTierSetOnly(user, paidTier) == [user EXCEPT !.PaidTier = @ \/ paidTier]

\* The row after UpdatePaidTier: the column paid_tier is set, nothing else.
PaidTierSet(user, paidTier) == [user EXCEPT !.PaidTier = paidTier]

UsersInit ==
    /\ NoUsers
    /\ NoCommands
    /\ NoGC
    /\ NoRepair
    /\ NoReputation
    /\ NoFilesystem

Insert(id, email) ==
    /\ ~Has(users, id)
    /\ users' = Put(users, id, NewUser(id, email))
    /\ inserted' = Put(inserted, id, NewUser(id, email))
    /\ UNCHANGED <<tiers, retrieved, nonUserVars>>

UpdatePaidTier(id, paidTier) ==
    /\ Has(users, id)
    /\ Len(tiers[id]) < MaxTierUpdates
    /\ users' = [users EXCEPT ![id] = PaidTierSet(@, paidTier)]
    /\ tiers' = [tiers EXCEPT ![id] = Append(@, paidTier)]
    /\ UNCHANGED <<inserted, retrieved, nonUserVars>>

\* Get returns the row; seen records the updates made before it.
Get(id) ==
    /\ Has(users, id)
    /\ retrieved' = <<[user |-> users[id], seen |-> tiers[id]]>>
    /\ UNCHANGED <<users, inserted, tiers, nonUserVars>>

UsersNext ==
    \/ \E id \in UserIDs, email \in Emails : Insert(id, email)
    \/ \E id \in UserIDs, paidTier \in BOOLEAN : UpdatePaidTier(id, paidTier)
    \/ \E id \in UserIDs : Get(id)

UsersSpec == UsersInit /\ [][UsersNext]_vars

\* The paid tier a user has after a sequence of UpdatePaidTier values.
TierAfter(seq) == IF seq = <<>> THEN FALSE ELSE seq[Len(seq)]

(***************************************************************************)
(* C26. UpdatePaidTier(id, v) changes only the PaidTier of that user: a    *)
(* later Get returns PaidTier = v with Email, FullName and ShortName as    *)
(* inserted, also when v is false after true, and the rows of the other    *)
(* users stay as they were.                                                *)
(***************************************************************************)
C26_UpdatePaidTierOnlyPaidTier ==
    /\ [](\A i \in 1..Len(retrieved) :
            LET u == retrieved[i].user
            IN  /\ u.PaidTier = TierAfter(retrieved[i].seen)
                /\ u.Email = inserted[u.ID].Email
                /\ u.FullName = inserted[u.ID].FullName
                /\ u.ShortName = inserted[u.ID].ShortName)
    /\ [][\A id \in UserIDs :
            tiers'[id] = tiers[id] /\ Has(users, id) => users'[id] = users[id]]_vars

\* Get after UpdatePaidTier(true) and UpdatePaidTier(false): PaidTier is false
\* again, while the other user was left on the paid tier.
C26_Witness ==
    /\ retrieved # <<>>
    /\ retrieved[1].seen = <<TRUE, FALSE>>
    /\ ~retrieved[1].user.PaidTier
    /\ retrieved[1].user.Email = "testemail@mail.test"
    /\ \E id \in UserIDs : id # retrieved[1].user.ID /\ Has(users, id) /\ users[id].PaidTier

\* The step is a Commit or Abort of a handle that was completed before.
CompletesAgain(h) ==
    /\ ret'.op \in {"Commit", "Abort"}
    /\ ret'.h = h
    /\ h \in 1..Len(whs)
    /\ whs[h].fate # "open"

\* The step is the first Commit or Abort of the handle.
CompletesFirst(h) ==
    /\ ret'.op \in {"Commit", "Abort"}
    /\ ret'.h = h
    /\ h \in 1..Len(whs)
    /\ whs[h].fate = "open"

(***************************************************************************)
(* C34, as stated. Every write handle is completed at most once: its first *)
(* Commit or Abort succeeds, every later one returns "already done" and    *)
(* changes neither the files nor the pending uploads.                      *)
(***************************************************************************)
C34_EveryHandleDoneOnce ==
    [][\A h \in 1..MaxHandles :
          /\ CompletesFirst(h) => ret'.err = ""
          /\ CompletesAgain(h) =>
                /\ ret'.err = "already done"
                /\ tfs'.files = tfs.files
                /\ tfs'.pending = tfs.pending]_vars

(***************************************************************************)
(* C34, amended. A write handle of a location other than "-" is completed  *)
(* at most once: its first Commit or Abort succeeds, every later one       *)
(* returns "already done" and changes neither the files nor the pending    *)
(* uploads; a Commit after an Abort writes no file.                        *)
(***************************************************************************)
C34_MemHandleDoneOnce ==
    [][\A h \in 1..MaxHandles :
          /\ CompletesFirst(h) => ret'.err = ""
          /\ (CompletesAgain(h) /\ whs[h].kind = "mem") =>
                /\ ret'.err = "already done"
                /\ tfs'.files = tfs.files
                /\ tfs'.pending = tfs.pending
                /\ whs' = whs]_vars

\* Commit after Abort on a handle with bytes written: "already done", and no
\* file at its location.
C34_Witness ==
    /\ ret.op = "Commit"
    /\ ret.err = "already done"
    /\ ret.h \in 1..Len(whs)
    /\ whs[ret.h].fate = "aborted"
    /\ whs[ret.h].buf # <<>>
    /\ ~Has(tfs.files, whs[ret.h].loc)

(***************************************************************************)
(* C35. A written file becomes visible only at Commit: Create, Write and   *)
(* Abort leave the file map as it is, a successful Commit puts exactly the *)
(* bytes written to its handle at the handle's location, whatever another  *)
(* handle had committed there, and Open finds a file only where a handle   *)
(* was committed.                                                          *)
(***************************************************************************)
C35_VisibleOnlyAtCommit ==
    /\ [][/\ ret'.op \in {"Create", "Write", "Abort"} => tfs'.files = tfs.files
          /\ \A h \in 1..MaxHandles :
                (CompletesFirst(h) /\ ret'.op = "Commit" /\ whs[h].kind = "mem") =>
                    /\ Has(tfs'.files, whs[h].loc)
                    /\ tfs'.files[whs[h].loc].contents = whs[h].buf
                    /\ OpenResult(tfs', whs[h].loc) = [contents |-> whs[h].buf, err |-> ""]
                    /\ \A l \in DOMAIN tfs'.files :
                          l # whs[h].loc => (Has(tfs.files, l) /\ tfs'.files[l] = tfs.files[l])]_vars
    /\ [](\A l \in Locs \ {StdLoc} :
            (OpenResult(tfs, l).err = "") =>
                \E h \in 1..Len(whs) : whs[h].loc = l /\ whs[h].fate = "committed")

\* Two handles on one location, both committed: the file holds the bytes of
\* the one committed last, which is the one created first.
C35_Witness ==
    /\ ret.op = "Commit"
    /\ ret.err = ""
    /\ \E h \in 1..Len(whs) :
          /\ h > ret.h
          /\ whs[h].kind = "mem"
          /\ whs[h].loc = whs[ret.h].loc
          /\ whs[h].fate = "committed"
          /\ whs[h].buf # whs[ret.h].buf
          /\ tfs.files[whs[h].loc].contents = whs[ret.h].buf
          /\ tfs.files[whs[h].loc].created = whs[ret.h].cre

\* The elements of a sequence.
Elems(seq) == {seq[i] : i \in 1..Len(seq)}

(***************************************************************************)
(* C36. The pending map holds exactly the write handles created and not    *)
(* yet committed or aborted: each under its location, each once, and no    *)
(* location maps to an empty list.                                         *)
(***************************************************************************)
C36_PendingIsOpenHandles ==
    /\ \A l \in DOMAIN tfs.pending :
          /\ tfs.pending[l] # <<>>
          /\ \A i, j \in 1..Len(tfs.pending[l]) :
                i # j => tfs.pending[l][i] # tfs.pending[l][j]
    /\ \A l \in Locs :
          Elems(IF l \in DOMAIN tfs.pending THEN tfs.pending[l] ELSE <<>>) =
              {h \in 1..Len(whs) : /\ whs[h].kind = "mem"
                                   /\ whs[h].loc = l
                                   /\ whs[h].fate = "open"}

\* Of three handles created on one location the second was aborted: the other
\* two are pending, in the order of their creation.
C36_Witness ==
    /\ Len(whs) = MaxHandles
    /\ whs[2].fate = "aborted"
    /\ \E l \in DOMAIN tfs.pending : tfs.pending[l] = <<1, 3>>
    /\ Cardinality(DOMAIN tfs.pending) = 1

(***************************************************************************)
(* C37. Create on a remote location whose bucket does not exist fails and  *)
(* leaves the filesystem as it is: pending, the created counter, files and *)
(* directory entries are unchanged and no handle is returned.              *)
(***************************************************************************)
C37_CreateWithoutBucketChangesNothing ==
    [][(ret'.op = "Create" /\ ret'.a.Kind = "remote" /\ ret'.a.Bucket \notin tfs.buckets) =>
          /\ ret'.err # ""
          /\ ret'.h = 0
          /\ tfs' = tfs
          /\ whs' = whs]_vars

\* Create in the bucket that was never made has failed on a filesystem with a
\* file, a directory entry and a pending upload.
C37_Witness ==
    /\ ret.op = "Create"
    /\ ret.a = RemoteLoc("b2", <<"k">>)
    /\ ret.err = "bucket does not exist"
    /\ tfs.created = 2
    /\ DOMAIN tfs.files # {}
    /\ DOMAIN tfs.pending # {}
    /\ DOMAIN tfs.locals # {}


(***************************************************************************)
(* The rb command (cmdRb.Execute).                                         *)
(***************************************************************************)

\* Every sub-model of the earlier sections at rest.
NoMain == NoGC /\ NoRepair /\ NoReputation /\ NoFilesystem /\ NoUsers

MaxDeletions == 3

\* Arguments of rb: "-", a local path, two buckets, and a bucket with a key.
RbLocs == {StdLoc, LocalLoc(<<"a">>), RemoteLoc("b1", <<>>),
           RemoteLoc("b2", <<>>), RemoteLoc("b1", <<"k">>)}

RemoteParts(loc) == [bucket |-> loc.Bucket, key |-> loc.Path, ok |-> loc.Kind = "remote"]

\* Mutant of DeletionCall: --force is ignored.
DeletionCallPlain(force, bucket) == [call |-> "DeleteBucket", bucket |-> bucket]

\* The call on the project that rb makes for a bucket.
DeletionCall(force, bucket) ==
    [call |-> IF force THEN "DeleteBucketWithObjects" ELSE "DeleteBucket",
     bucket |-> bucket]

\* Execute: the calls it makes on the project, what it returns and whether it
\* prints the message. openFails and deleteFails are the outcomes of
\* OpenProject and of the deletion.
RbResult(loc, force, openFails, deleteFails) ==
    IF openFails
    THEN [calls |-> <<>>, opened |-> FALSE, err |-> "open project", out |-> FALSE]
    ELSE LET parts == RemoteParts(loc)
         IN  IF ~parts.ok
             THEN [calls |-> <<>>, opened |-> TRUE,
                   err |-> "location must be remote", out |-> FALSE]
             ELSE IF parts.key # <<>>
             THEN [calls |-> <<>>, opened |-> TRUE,
                   err |-> "key must not be specified", out |-> FALSE]
             ELSE IF deleteFails
             THEN [calls |-> <<DeletionCall(force, parts.bucket)>>, opened |-> TRUE,
                   err |-> "delete bucket", out |-> FALSE]
             ELSE [calls |-> <<DeletionCall(force, parts.bucket)>>, opened |-> TRUE,
                   err |-> "", out |-> TRUE]

RbInit ==
    /\ NoRb
    /\ NoMain
    /\ NoPeer
    /\ NoAccess
    /\ NoWeb

Rb(loc, force, openFails, deleteFails) ==
    /\ Len(deletions) < MaxDeletions
    /\ LET r == RbResult(loc, force, openFails, deleteFails)
       IN  /\ deletions' = deletions \o r.calls
           /\ rbRet' = [loc |-> loc, force |-> force, opened |-> r.opened,
                        err |-> r.err, out |-> r.out]
    /\ UNCHANGED nonRbVars

RbNext ==
    \E loc \in RbLocs, force \in BOOLEAN, openFails \in BOOLEAN, deleteFails \in BOOLEAN :
        Rb(loc, force, openFails, deleteFails)

RbSpec == RbInit /\ [][RbNext]_vars

\* The deletions the step's command has issued.
Issued == SubSeq(deletions', Len(deletions) + 1, Len(deletions'))

\* The one deletion that the command's arguments call for.
WantedDeletion ==
    <<[call |-> IF rbRet'.force THEN "DeleteBucketWithObjects" ELSE "DeleteBucket",
       bucket |-> rbRet'.loc.Bucket]>>

BucketOnly(loc) == loc.Kind = "remote" /\ loc.Path = <<>>

(***************************************************************************)
(* C33, as stated. rb issues no bucket deletion when the location is not   *)
(* remote or carries a key; otherwise it issues exactly one deletion,      *)
(* DeleteBucketWithObjects with --force and DeleteBucket without, and it   *)
(* prints the message only when that deletion returned no error.           *)
(***************************************************************************)
C33_OneDeletionForBucket ==
    [][/\ ~BucketOnly(rbRet'.loc) => Issued = <<>>
       /\ BucketOnly(rbRet'.loc) => Issued = WantedDeletion
       /\ rbRet'.out => (Issued = WantedDeletion /\ rbRet'.err = "")]_vars

(***************************************************************************)
(* C33, amended. rb issues no bucket deletion when the location is not     *)
(* remote or carries a key, or when the project could not be opened;       *)
(* otherwise it issues exactly one deletion, DeleteBucketWithObjects with  *)
(* --force and DeleteBucket without, and it prints the message only when   *)
(* that deletion returned no error.                                        *)
(***************************************************************************)
C33_OneDeletionOnceOpened ==
    [][/\ (~BucketOnly(rbRet'.loc) \/ ~rbRet'.opened) => Issued = <<>>
       /\ (BucketOnly(rbRet'.loc) /\ rbRet'.opened) => Issued = WantedDeletion
       /\ rbRet'.out => (Issued = WantedDeletion /\ rbRet'.err = "")
       /\ (Issued # <<>> /\ rbRet'.err # "") => ~rbRet'.out]_vars

\* A plain rb of one bucket that failed in the deletion, then a forced rb of
\* the other that printed the message.
C33_Witness ==
    /\ deletions = <<[call |-> "DeleteBucket", bucket |-> "b1"],
                     [call |-> "DeleteBucketWithObjects", bucket |-> "b2"]>>
    /\ rbRet.force
    /\ rbRet.out
    /\ rbRet.err = ""


(***************************************************************************)
(* The access-delete command (cmdAccessDelete.Execute).                    *)
(***************************************************************************)

\* The names that saved accesses carry, and a name that none carries.
AccessNames == {"a", "b", "c", "d"}
DeleteArgs == AccessNames \cup {"x"}
AccessValue(name) == <<"grant", name>>

\* The access files to start from: some accesses, one of them the default.
AccessFiles ==
    {[defaultName |-> d, accesses |-> [n \in S |-> AccessValue(n)]] :
        <<d, S>> \in {ds \in AccessNames \X SUBSET AccessNames : ds[1] \in ds[2]}}

\* GetAccessInfo(true): the saved default name and accesses, or an error.
GetAccessInfo(fails) ==
    IF fails
    THEN [defaultName |-> "", accesses |-> EmptyMap, err |-> "get access info"]
    ELSE [defaultName |-> defaultName, accesses |-> accesses, err |-> ""]

\* SaveAccessInfo: what the access file holds afterwards, and the error.
SaveAccessInfo(name, accs, fails) ==
    IF fails
    THEN [defaultName |-> defaultName, accesses |-> accesses, err |-> "save access info"]
    ELSE [defaultName |-> name, accesses |-> accs, err |-> ""]

\* Mutant of IsCurrent: no access is taken for the current one.
IsCurrentNever(access, name) == FALSE

IsCurrent(access, name) == access = name

\* Execute with the argument `access`: the access file afterwards, the
\* error returned, whether the file was saved and whether "Removed access"
\* was printed.
AccessDeleteResult(access, getFails, saveFails) ==
    LET info == GetAccessInfo(getFails)
        kept == [defaultName |-> defaultName, accesses |-> accesses]
    IN  IF info.err # ""
        THEN [file |-> kept, err |-> info.err, saved |-> FALSE, out |-> FALSE]
        ELSE IF IsCurrent(access, info.defaultName)
        THEN [file |-> kept, err |-> "cannot delete current access",
              saved |-> FALSE, out |-> FALSE]
        ELSE IF ~Has(info.accesses, access)
        THEN [file |-> kept, err |-> "unknown access", saved |-> FALSE, out |-> FALSE]
        ELSE LET s == SaveAccessInfo(info.defaultName, Del(info.accesses, access),
                                     saveFails)
             IN  [file |-> [defaultName |-> s.defaultName, accesses |-> s.accesses],
                  err |-> s.err, saved |-> s.err = "", out |-> s.err = ""]

AccessInit ==
    /\ \E file \in AccessFiles :
          /\ defaultName = file.defaultName
          /\ accesses = file.accesses
    /\ accessRet = NoAccessRet
    /\ NoMain
    /\ NoPeer
    /\ NoRb
    /\ NoWeb

AccessDelete(access, getFails, saveFails) ==
    /\ LET r == AccessDeleteResult(access, getFails, saveFails)
       IN  /\ defaultName' = r.file.defaultName
           /\ accesses' = r.file.accesses
           /\ accessRet' = [name |-> access, err |-> r.err, saved |-> r.saved,
                            out |-> r.out]
    /\ UNCHANGED nonAccessVars

AccessNext ==
    \E access \in DeleteArgs, getFails \in BOOLEAN, saveFails \in BOOLEAN :
        AccessDelete(access, getFails, saveFails)

AccessSpec == AccessInit /\ [][AccessNext]_vars

(***************************************************************************)
(* C32. After any sequence of access-delete commands the default access is *)
(* still among the saved accesses and the default name is what it was:     *)
(* deleting the default access or an unknown name fails and saves nothing, *)
(* and a delete that succeeds removes the named access and no other.       *)
(***************************************************************************)
C32_DefaultAccessSurvives ==
    /\ [](defaultName \in DOMAIN accesses)
    /\ [][/\ defaultName' = defaultName
          /\ (accessRet'.name = defaultName \/ accessRet'.name \notin DOMAIN accesses) =>
                /\ accessRet'.err # ""
                /\ ~accessRet'.saved
                /\ accesses' = accesses
          /\ accessRet'.err # "" => accesses' = accesses
          /\ accessRet'.err = "" =>
                /\ accessRet'.name \in DOMAIN accesses
                /\ DOMAIN accesses' = DOMAIN accesses \ {accessRet'.name}
                /\ \A n \in DOMAIN accesses' : accesses'[n] = accesses[n]]_vars

\* A delete has succeeded and left the default access as the only one saved.
C32_Witness ==
    /\ accessRet.err = ""
    /\ accessRet.saved
    /\ accessRet.name \in AccessNames \ DOMAIN accesses
    /\ DOMAIN accesses = {defaultName}


(***************************************************************************)
(* The repairer peer's constructor (NewRepairer) and Close.                *)
(***************************************************************************)

\* The inputs of one call: whether a debug address is configured, and which
\* of the constructors that can fail do.
Configs ==
    [DebugAddress : BOOLEAN, listenFails : BOOLEAN, tlsFails : BOOLEAN,
     overlayFails : BOOLEAN, ordersFails : BOOLEAN]

\* A lifecycle.Item: its name, and whether it has a Run and a Close function.
Item(name, run, close) == [Name |-> name, Run |-> run, Close |-> close]

DebugItem == Item("debug", TRUE, TRUE)
VersionItem == Item("version", TRUE, FALSE)
OverlayItem == Item("overlay", FALSE, TRUE)
ReputationItem == Item("reputation", FALSE, TRUE)
OrdersChoreItem == Item("orders:chore", TRUE, TRUE)
RepairItem == Item("repair", TRUE, TRUE)

RECURSIVE Reverse(_)
Reverse(seq) == IF seq = <<>> THEN <<>> ELSE Reverse(Tail(seq)) \o <<Head(seq)>>

\* lifecycle.Group.Close: the items closed, last added first; an item without
\* a Close function is passed over.
GroupClose(items) == SelectSeq(Reverse(items), LAMBDA i : i.Close)

\* Mutant of PeerClose: the services are left open.
PeerCloseServersOnly(srv, svc) == GroupClose(srv)

\* Repairer.Close: the servers, then the services.
PeerClose(srv, svc) == GroupClose(srv) \o GroupClose(svc)

PeerInit ==
    /\ setup = "new"
    /\ config \in Configs
    /\ listener = ""
    /\ servers = <<>>
    /\ services = <<>>
    /\ closing = <<>>
    /\ returned = NoReturn
    /\ NoMain
    /\ NoAccess
    /\ NoRb
    /\ NoWeb

\* A block that cannot fail: on to the next one.
Proceed(from, to) ==
    /\ setup = from
    /\ setup' = to
    /\ UNCHANGED <<config, closing, returned>>
    /\ UNCHANGED nonPeerVars

\* return nil, errs.Combine(err, peer.Close())
Fail(from, cause) ==
    /\ setup = from
    /\ setup' = "returned"
    /\ closing' = closing \o PeerClose(servers, services)
    /\ returned' = [peer |-> "nil", err |-> {cause}]
    /\ UNCHANGED <<config, listener, servers, services>>
    /\ UNCHANGED nonPeerVars

NewPeer ==
    /\ Proceed("new", "debug")
    /\ UNCHANGED <<listener, servers, services>>

\* A listener that cannot be opened is logged; the debug server is added all
\* the same.
SetupDebug ==
    /\ Proceed("debug", "version")
    /\ listener' = IF config.DebugAddress /\ ~config.listenFails THEN "open" ELSE "nil"
    /\ servers' = Append(servers, DebugItem)
    /\ UNCHANGED services

SetupVersion ==
    /\ Proceed("version", "dialer")
    /\ services' = Append(services, VersionItem)
    /\ UNCHANGED <<listener, servers>>

SetupDialer ==
    IF config.tlsFails
    THEN Fail("dialer", "tls options")
    ELSE Proceed("dialer", "metainfo") /\ UNCHANGED <<listener, servers, services>>

SetupMetainfo ==
    /\ Proceed("metainfo", "overlay")
    /\ UNCHANGED <<listener, servers, services>>

SetupOverlay ==
    IF config.overlayFails
    THEN Fail("overlay", "overlay service")
    ELSE /\ Proceed("overlay", "reputation")
         /\ services' = Append(services, OverlayItem)
         /\ UNCHANGED <<listener, servers>>

SetupReputation ==
    /\ Proceed("reputation", "orders")
    /\ services' = Append(services, ReputationItem)
    /\ UNCHANGED <<listener, servers>>

\* The orders chore is added before the orders service is made.
SetupOrders ==
    /\ setup = "orders"
    /\ setup' = IF config.ordersFails THEN "returned" ELSE "repairer"
    /\ services' = Append(services, OrdersChoreItem)
    /\ closing' = IF config.ordersFails
                  THEN closing \o PeerClose(servers, services')
                  ELSE closing
    /\ returned' = IF config.ordersFails
                   THEN [peer |-> "nil", err |-> {"orders service"}]
                   ELSE returned
    /\ UNCHANGED <<config, listener, servers>>
    /\ UNCHANGED nonPeerVars

SetupRepairer ==
    /\ setup = "repairer"
    /\ setup' = "returned"
    /\ services' = Append(services, RepairItem)
    /\ returned' = [peer |-> "peer", err |-> {}]
    /\ UNCHANGED <<config, listener, servers, closing>>
    /\ UNCHANGED nonPeerVars

PeerNext ==
    \/ NewPeer
    \/ SetupDebug
    \/ SetupVersion
    \/ SetupDialer
    \/ SetupMetainfo
    \/ SetupOverlay
    \/ SetupReputation
    \/ SetupOrders
    \/ SetupRepairer

PeerSpec == PeerInit /\ [][PeerNext]_vars

\* The items added to either group, and those Close has been called on.
Registered == {servers[i] : i \in 1..Len(servers)} \cup {services[i] : i \in 1..Len(services)}
ClosedItems == {closing[i] : i \in 1..Len(closing)}

SetupFails == config.tlsFails \/ config.overlayFails \/ config.ordersFails

(***************************************************************************)
(* C31. NewRepairer returns a nil peer and an error whenever the TLS       *)
(* options, the overlay service or the orders service cannot be made, and  *)
(* has then closed every server and service added so far that has a Close; *)
(* when only the debug listener cannot be opened it returns the peer,      *)
(* fully set up, and no error.                                             *)
(***************************************************************************)
C31_FailedSetupClosesAndReturnsNil ==
    setup = "returned" =>
        IF SetupFails
        THEN /\ returned.peer = "nil"
             /\ returned.err # {}
             /\ ClosedItems = {i \in Registered : i.Close}
             /\ Len(closing) = Cardinality(ClosedItems)
        ELSE /\ returned = [peer |-> "peer", err |-> {}]
             /\ closing = <<>>
             /\ Registered = {DebugItem, VersionItem, OverlayItem, ReputationItem,
                              OrdersChoreItem, RepairItem}

\* With the debug listener failing too, the orders service could not be made:
\* nil is returned and the debug server, the orders chore, reputation and
\* overlay have been closed.
C31_Witness ==
    /\ setup = "returned"
    /\ config.DebugAddress
    /\ config.listenFails
    /\ listener = "nil"
    /\ config.ordersFails
    /\ returned = [peer |-> "nil", err |-> {"orders service"}]
    /\ closing = <<DebugItem, OrdersChoreItem, ReputationItem, OverlayItem>>

(***************************************************************************)
(* The onboarding overview step (OverviewStep.vue): three buttons, one     *)
(* isLoading flag. A handler runs up to its next await in one step; what   *)
(* it awaits settles in a later step, and other handlers may run between.  *)
(***************************************************************************)

Buttons == {"cli", "browser", "skip"}

\* The slot a new handler takes: the first that is idle.
FreeSlot(h) ==
    /\ handlers[h].at = "idle"
    /\ \A g \in Handlers : g < h => handlers[g].at # "idle"

\* Where a handler first waits: the CLI and browser handlers for the
\* analytics call, the skip handler for the dispatch.
FirstAwait(button) == IF button = "skip" THEN "dispatch" ELSE "analytics"

\* Whether a rejected router.push is caught at the call (.catch) and dropped.
PushCaught(button) == button = "browser"

\* this.isLoading = false, at the end of the catch block.
AfterNotify(loading) == FALSE

WebInit ==
    /\ NoWeb
    /\ NoMain
    /\ NoPeer
    /\ NoAccess
    /\ NoRb

\* A click while isLoading is true: the handler returns at once.
ClickIgnored(button) ==
    /\ isLoading
    /\ click' = [button |-> button, taken |-> FALSE]
    /\ UNCHANGED <<isLoading, handlers>>
    /\ UNCHANGED nonWebVars

\* A click while isLoading is false: the flag is set and the handler runs up
\* to its first await.
ClickTaken(h, button) ==
    /\ ~isLoading
    /\ FreeSlot(h)
    /\ isLoading' = TRUE
    /\ handlers' = [handlers EXCEPT ![h] = [button |-> button, at |-> FirstAwait(button),
                                            failed |-> ""]]
    /\ click' = [button |-> button, taken |-> TRUE]
    /\ UNCHANGED nonWebVars

\* linkEventTriggered settles: resolved, the handler dispatches
\* CREATE_DEFAULT_PROJECT; rejected, the await stands outside the try block
\* and the handler ends there, the flag as it is.
AnalyticsSettles(h, ok) ==
    /\ handlers[h].at = "analytics"
    /\ handlers' = IF ok
                   THEN [handlers EXCEPT ![h].at = "dispatch"]
                   ELSE [handlers EXCEPT ![h].at = "idle", ![h].failed = "analytics"]
    /\ UNCHANGED <<isLoading, click>>
    /\ UNCHANGED nonWebVars

\* The dispatch settles: resolved, the flag is cleared and router.push is
\* called; rejected, the catch block calls $notify.error.
DispatchSettles(h, ok) ==
    /\ handlers[h].at = "dispatch"
    /\ IF ok
       THEN /\ isLoading' = FALSE
            /\ handlers' = [handlers EXCEPT ![h].at = "push"]
       ELSE /\ handlers' = [handlers EXCEPT ![h].at = "notify", ![h].failed = "dispatch"]
            /\ UNCHANGED isLoading
    /\ UNCHANGED click
    /\ UNCHANGED nonWebVars

\* router.push settles: resolved, the handler is finished; rejected, the
\* browser handler drops the error, the other two enter the catch block.
PushSettles(h, ok) ==
    /\ handlers[h].at = "push"
    /\ handlers' = [handlers EXCEPT
                      ![h].at = IF ok \/ PushCaught(handlers[h].button)
                                THEN "idle" ELSE "notify",
                      ![h].failed = IF ok THEN "" ELSE "push"]
    /\ UNCHANGED <<isLoading, click>>
    /\ UNCHANGED nonWebVars

\* $notify.error settles: resolved, the catch block clears the flag and the
\* handler is finished; rejected, the handler ends before the flag is cleared.
NotifySettles(h, ok) ==
    /\ handlers[h].at = "notify"
    /\ isLoading' = IF ok THEN AfterNotify(isLoading) ELSE isLoading
    /\ handlers' = [handlers EXCEPT ![h].at = "idle",
                                    ![h].failed = IF ok THEN @ ELSE "notify"]
    /\ UNCHANGED click
    /\ UNCHANGED nonWebVars

WebNext ==
    \/ \E button \in Buttons : ClickIgnored(button)
    \/ \E h \in Handlers, button \in Buttons : ClickTaken(h, button)
    \/ \E h \in Handlers, ok \in BOOLEAN : AnalyticsSettles(h, ok)
    \/ \E h \in Handlers, ok \in BOOLEAN : DispatchSettles(h, ok)
    \/ \E h \in Handlers, ok \in BOOLEAN : PushSettles(h, ok)
    \/ \E h \in Handlers, ok \in BOOLEAN : NotifySettles(h, ok)

WebSpec == WebInit /\ [][WebNext]_vars

\* Whatever a handler awaits settles in the end.
WebFairness ==
    \A h \in Handlers :
        /\ WF_vars(\E ok \in BOOLEAN : AnalyticsSettles(h, ok))
        /\ WF_vars(\E ok \in BOOLEAN : DispatchSettles(h, ok))
        /\ WF_vars(\E ok \in BOOLEAN : PushSettles(h, ok))
        /\ WF_vars(\E ok \in BOOLEAN : NotifySettles(h, ok))

WebFairSpec == WebSpec /\ WebFairness

\* The handlers whose CREATE_DEFAULT_PROJECT dispatch has not settled.
DispatchesInFlight == {h \in Handlers : handlers[h].at = "dispatch"}

NoHandlerRuns == \A h \in Handlers : handlers[h].at = "idle"

(***************************************************************************)
(* C38. The click handlers never have two CREATE_DEFAULT_PROJECT           *)
(* dispatches in flight at the same time.                                  *)
(***************************************************************************)
C38_OneDispatchInFlight == Cardinality(DispatchesInFlight) <= 1

(***************************************************************************)
(* C39. isLoading is false again once the click handlers have finished,    *)
(* whatever succeeded or failed on the way: it is false whenever no        *)
(* handler runs, and whenever it is true it becomes false later.           *)
(***************************************************************************)
C39_LoadingEnds ==
    /\ [](NoHandlerRuns => ~isLoading)
    /\ isLoading ~> ~isLoading

====
